---- MODULE Spec2Model ----
(***************************************************************************)
(* Owner-swap log analyzer (src/ownerswap_analyzer/ownerswap_analyzer.py). *)
(* main() discovers the .log files, resets the report and calls            *)
(* analyze_log_file once per file; analyze_log_file drives each line of a  *)
(* file through the pattern chain and owner_swap_state_machine and appends *)
(* one row to the report.                                                  *)
(***************************************************************************)
EXTENDS Integers, Sequences, FiniteSets, TLC

\* ------------------------------------------------------------------ bounds
\* Largest number of .log files find_log_files may return.
MaxFiles == 2
\* Largest number of lines of a log file.
MaxLines == 8
\* Number of calls of analyze_log_file running side by side.
NumInstances == 2

\* ------------------------------------------------ constants of the program
STATE_WAITING_FOR_OWNER_PAIRING == 0
STATE_OWNER_PAIRING_STARTED == 1
STATE_OWNER_PAIRING_COMPLETED == 2
STATE_OWNER_SWAP_INITIATED == 3
STATE_OLD_OWNER_DISCONNECTED == 4
STATE_OWNER_SWAP_COMPLETED == 5
STATE_BOND_DELETED_STILL_CONNECTED == 6
STATE_NEW_OWNER_DISCONNECTED_BOND_STILL_EXIST == 7
STATE_OWNER_SWAP_SUCCESS == 8

EVENT_OWNER_PAIRING_STARTED == 0
EVENT_OWNER_PAIRING_COMPLETED == 1
EVENT_OLD_OWNER_DISCONNECTED == 2
EVENT_BOND_DELETION == 3
EVENT_BOND_DELETION_FAILED == 4
EVENT_NEW_OWNER_DISCONNECTED == 5

\* The nine states and the six events the constants above name.
States ==
    { STATE_WAITING_FOR_OWNER_PAIRING, STATE_OWNER_PAIRING_STARTED,
      STATE_OWNER_PAIRING_COMPLETED, STATE_OWNER_SWAP_INITIATED,
      STATE_OLD_OWNER_DISCONNECTED, STATE_OWNER_SWAP_COMPLETED,
      STATE_BOND_DELETED_STILL_CONNECTED,
      STATE_NEW_OWNER_DISCONNECTED_BOND_STILL_EXIST,
      STATE_OWNER_SWAP_SUCCESS }

Events ==
    { EVENT_OWNER_PAIRING_STARTED, EVENT_OWNER_PAIRING_COMPLETED,
      EVENT_OLD_OWNER_DISCONNECTED, EVENT_BOND_DELETION,
      EVENT_BOND_DELETION_FAILED, EVENT_NEW_OWNER_DISCONNECTED }

\* ------------------------------------------- owner_swap_state_machine
\* One definition per branch of the if/elif chain on current_state; each
\* returns the pair (new_state, status_message).

C16_MutantWaitingIgnoresOthers(events, current_state) ==
    IF events = EVENT_OWNER_PAIRING_STARTED
    THEN << STATE_OWNER_PAIRING_STARTED, "OK" >>
    ELSE << current_state, "OK" >>

C7_MutantWaitingWrongMessage(events, current_state) ==
    IF events = EVENT_OWNER_PAIRING_STARTED
    THEN << STATE_OWNER_PAIRING_STARTED, "OK" >>
    ELSE << current_state, "Owner Pairing was not completed" >>

In_WAITING_FOR_OWNER_PAIRING(events, current_state) ==
    IF events = EVENT_OWNER_PAIRING_STARTED
    THEN << STATE_OWNER_PAIRING_STARTED, "OK" >>
    ELSE << current_state, "Owner Pairing was not started" >>

C13_MutantPairingStartedWrongEvent(events, current_state) ==
    IF events = EVENT_OWNER_PAIRING_STARTED
    THEN << STATE_OWNER_PAIRING_COMPLETED, "OK" >>
    ELSE << current_state, "Owner Pairing was not completed" >>

In_OWNER_PAIRING_STARTED(events, current_state) ==
    IF events = EVENT_OWNER_PAIRING_COMPLETED
    THEN << STATE_OWNER_PAIRING_COMPLETED, "OK" >>
    ELSE << current_state, "Owner Pairing was not completed" >>

C5_MutantPairingCompletedSkipsPhase(events, current_state) ==
    IF events = EVENT_OWNER_PAIRING_STARTED
    THEN << STATE_OLD_OWNER_DISCONNECTED, "OK" >>
    ELSE << current_state, "Owner Swap was not initiated" >>

In_OWNER_PAIRING_COMPLETED(events, current_state) ==
    IF events = EVENT_OWNER_PAIRING_STARTED
    THEN << STATE_OWNER_SWAP_INITIATED, "OK" >>
    ELSE << current_state, "Owner Swap was not initiated" >>

C6_MutantSwapInitiatedResets(events, current_state) ==
    IF events = EVENT_OLD_OWNER_DISCONNECTED
    THEN << STATE_OLD_OWNER_DISCONNECTED, "OK" >>
    ELSE << STATE_WAITING_FOR_OWNER_PAIRING, "Old Owner did not disconnect" >>

In_OWNER_SWAP_INITIATED(events, current_state) ==
    IF events = EVENT_OLD_OWNER_DISCONNECTED
    THEN << STATE_OLD_OWNER_DISCONNECTED, "OK" >>
    ELSE << current_state, "Old Owner did not disconnect" >>

C1_MutantOldOwnerDisconnectedNoElse(events, current_state) ==
    IF events = EVENT_OWNER_PAIRING_COMPLETED
    THEN << STATE_OWNER_SWAP_COMPLETED, "OK" >>
    ELSE << >>  \* no else branch: the function returns nothing

In_OLD_OWNER_DISCONNECTED(events, current_state) ==
    IF events = EVENT_OWNER_PAIRING_COMPLETED
    THEN << STATE_OWNER_SWAP_COMPLETED, "OK" >>
    ELSE << current_state, "Owner Swap was not completed" >>

C17_MutantSwapCompletedFailedIsOk(events, current_state) ==
    IF events = EVENT_BOND_DELETION
    THEN << STATE_BOND_DELETED_STILL_CONNECTED, "OK" >>
    ELSE IF events = EVENT_BOND_DELETION_FAILED
    THEN << current_state, "OK" >>
    ELSE IF events = EVENT_NEW_OWNER_DISCONNECTED
    THEN << STATE_NEW_OWNER_DISCONNECTED_BOND_STILL_EXIST, "OK" >>
    ELSE << current_state, "Bond Deletion did not occur before disconnecting" >>

C8_MutantSwapCompletedNoFailedBranch(events, current_state) ==
    IF events = EVENT_BOND_DELETION
    THEN << STATE_BOND_DELETED_STILL_CONNECTED, "OK" >>
    ELSE IF events = EVENT_NEW_OWNER_DISCONNECTED
    THEN << STATE_NEW_OWNER_DISCONNECTED_BOND_STILL_EXIST, "OK" >>
    ELSE << current_state, "Bond Deletion did not occur before disconnecting" >>

In_OWNER_SWAP_COMPLETED(events, current_state) ==
    IF events = EVENT_BOND_DELETION
    THEN << STATE_BOND_DELETED_STILL_CONNECTED, "OK" >>
    ELSE IF events = EVENT_BOND_DELETION_FAILED
    THEN << current_state, "Bond Deletion failed" >>
    ELSE IF events = EVENT_NEW_OWNER_DISCONNECTED
    THEN << STATE_NEW_OWNER_DISCONNECTED_BOND_STILL_EXIST, "OK" >>
    ELSE << current_state, "Bond Deletion did not occur before disconnecting" >>

C10_MutantBondDeletedNoNoOp(events, current_state) ==
    IF events = EVENT_NEW_OWNER_DISCONNECTED
    THEN << STATE_OWNER_SWAP_SUCCESS, "OK" >>
    ELSE << current_state, "New Owner did not disconnect" >>

C29_MutantBondDeletedStepsBack(events, current_state) ==
    IF events = EVENT_NEW_OWNER_DISCONNECTED
    THEN << STATE_OWNER_SWAP_SUCCESS, "OK" >>
    ELSE IF events = EVENT_OLD_OWNER_DISCONNECTED
    THEN << STATE_OLD_OWNER_DISCONNECTED, "OK" >>
    ELSE << current_state, "New Owner did not disconnect" >>

C31_MutantBondDeletedIgnoresFailure(events, current_state) ==
    IF events = EVENT_NEW_OWNER_DISCONNECTED
    THEN << STATE_OWNER_SWAP_SUCCESS, "OK" >>
    ELSE IF events \in {EVENT_OLD_OWNER_DISCONNECTED, EVENT_BOND_DELETION_FAILED}
    THEN << current_state, "OK" >>
    ELSE << current_state, "New Owner did not disconnect" >>

C32_MutantBondDeletedPastLastState(events, current_state) ==
    IF events = EVENT_NEW_OWNER_DISCONNECTED
    THEN << STATE_OWNER_SWAP_SUCCESS + 1, "OK" >>
    ELSE IF events = EVENT_OLD_OWNER_DISCONNECTED
    THEN << current_state, "OK" >>
    ELSE << current_state, "New Owner did not disconnect" >>

In_BOND_DELETED_STILL_CONNECTED(events, current_state) ==
    IF events = EVENT_NEW_OWNER_DISCONNECTED
    THEN << STATE_OWNER_SWAP_SUCCESS, "OK" >>
    ELSE IF events = EVENT_OLD_OWNER_DISCONNECTED
    THEN << current_state, "OK" >>
    ELSE << current_state, "New Owner did not disconnect" >>

C14_MutantBondStillExistNoDeletionBranch(events, current_state) ==
    IF events = EVENT_BOND_DELETION_FAILED
    THEN << current_state, "Bond Deletion failed" >>
    ELSE IF events = EVENT_OLD_OWNER_DISCONNECTED
    THEN << current_state, "OK" >>
    ELSE << current_state, "Bond Deletion did no occur after disconnecting" >>

C28_MutantBondStillExistNoNoOp(events, current_state) ==
    IF events = EVENT_BOND_DELETION
    THEN << STATE_OWNER_SWAP_SUCCESS, "OK" >>
    ELSE IF events = EVENT_BOND_DELETION_FAILED
    THEN << current_state, "Bond Deletion failed" >>
    ELSE << current_state, "Bond Deletion did no occur after disconnecting" >>

In_NEW_OWNER_DISCONNECTED_BOND_STILL_EXIST(events, current_state) ==
    IF events = EVENT_BOND_DELETION
    THEN << STATE_OWNER_SWAP_SUCCESS, "OK" >>
    ELSE IF events = EVENT_BOND_DELETION_FAILED
    THEN << current_state, "Bond Deletion failed" >>
    ELSE IF events = EVENT_OLD_OWNER_DISCONNECTED
    THEN << current_state, "OK" >>
    ELSE << current_state, "Bond Deletion did no occur after disconnecting" >>

C2_MutantSuccessRestarts(events, current_state) ==
    IF events = EVENT_OWNER_PAIRING_STARTED
    THEN << STATE_OWNER_PAIRING_STARTED, "OK" >>
    ELSE << current_state, "OK" >>

C30_MutantSuccessRejectsDeletionFailed(events, current_state) ==
    IF events = EVENT_BOND_DELETION_FAILED
    THEN << current_state, "Bond Deletion failed" >>
    ELSE << current_state, "OK" >>

In_OWNER_SWAP_SUCCESS(events, current_state) ==
    << current_state, "OK" >>

owner_swap_state_machine(events, current_state) ==
    IF current_state = STATE_WAITING_FOR_OWNER_PAIRING
    THEN In_WAITING_FOR_OWNER_PAIRING(events, current_state)
    ELSE IF current_state = STATE_OWNER_PAIRING_STARTED
    THEN In_OWNER_PAIRING_STARTED(events, current_state)
    ELSE IF current_state = STATE_OWNER_PAIRING_COMPLETED
    THEN In_OWNER_PAIRING_COMPLETED(events, current_state)
    ELSE IF current_state = STATE_OWNER_SWAP_INITIATED
    THEN In_OWNER_SWAP_INITIATED(events, current_state)
    ELSE IF current_state = STATE_OLD_OWNER_DISCONNECTED
    THEN In_OLD_OWNER_DISCONNECTED(events, current_state)
    ELSE IF current_state = STATE_OWNER_SWAP_COMPLETED
    THEN In_OWNER_SWAP_COMPLETED(events, current_state)
    ELSE IF current_state = STATE_BOND_DELETED_STILL_CONNECTED
    THEN In_BOND_DELETED_STILL_CONNECTED(events, current_state)
    ELSE IF current_state = STATE_NEW_OWNER_DISCONNECTED_BOND_STILL_EXIST
    THEN In_NEW_OWNER_DISCONNECTED_BOND_STILL_EXIST(events, current_state)
    ELSE IF current_state = STATE_OWNER_SWAP_SUCCESS
    THEN In_OWNER_SWAP_SUCCESS(events, current_state)
    ELSE << current_state, "Unknown state: " \o ToString(current_state) >>

\* ------------------------------------------------------ event extraction
\* The six regular expressions of analyze_log_file, in the order of the
\* if/elif chain.  Each is a literal text (the only metacharacter used is
\* the escaped "|").
RE_OWNER_PAIRING_STARTED == "Owner Pairing Started"
RE_OWNER_PAIRING_COMPLETE == "Owner Pairing Complete!"
RE_LINK_TERMINATED_00 == "Link Terminated Received, link 0x00"
RE_BOND_DELETION_STATUS_00 ==
    "BLE Cloud Event: Bond Deletion - Deletion Type: 02 | Status: 00"
RE_BOND_DELETION_STATUS == "BLE Cloud Event: Bond Deletion - Deletion Type: 02 | Status:"
RE_LINK_TERMINATED_01 == "Link Terminated Received, link 0x01"

Patterns ==
    { RE_OWNER_PAIRING_STARTED, RE_OWNER_PAIRING_COMPLETE, RE_LINK_TERMINATED_00,
      RE_BOND_DELETION_STATUS_00, RE_BOND_DELETION_STATUS, RE_LINK_TERMINATED_01 }

\* A line of a log file, as far as the analyzer can tell lines apart: the set
\* of the pattern texts that occur in it.  RE_BOND_DELETION_STATUS is a prefix
\* of RE_BOND_DELETION_STATUS_00, so a line holding the latter holds the former.
Lines ==
    { l \in SUBSET Patterns :
        RE_BOND_DELETION_STATUS_00 \in l => RE_BOND_DELETION_STATUS \in l }

\* re.search(pattern, line): does the text occur anywhere in the line.
re_search(pattern, line) == pattern \in line

\* No branch of the chain matched (match_found = False).
NoEvent == -1

C12_MutantFailedPatternFirst(line) ==
    IF re_search(RE_OWNER_PAIRING_STARTED, line) THEN EVENT_OWNER_PAIRING_STARTED
    ELSE IF re_search(RE_OWNER_PAIRING_COMPLETE, line) THEN EVENT_OWNER_PAIRING_COMPLETED
    ELSE IF re_search(RE_LINK_TERMINATED_00, line) THEN EVENT_OLD_OWNER_DISCONNECTED
    ELSE IF re_search(RE_BOND_DELETION_STATUS, line) THEN EVENT_BOND_DELETION_FAILED
    ELSE IF re_search(RE_BOND_DELETION_STATUS_00, line) THEN EVENT_BOND_DELETION
    ELSE IF re_search(RE_LINK_TERMINATED_01, line) THEN EVENT_NEW_OWNER_DISCONNECTED
    ELSE NoEvent

\* The event the if/elif chain of the loop body passes to the state machine.
ExtractEvent(line) ==
    IF re_search(RE_OWNER_PAIRING_STARTED, line) THEN EVENT_OWNER_PAIRING_STARTED
    ELSE IF re_search(RE_OWNER_PAIRING_COMPLETE, line) THEN EVENT_OWNER_PAIRING_COMPLETED
    ELSE IF re_search(RE_LINK_TERMINATED_00, line) THEN EVENT_OLD_OWNER_DISCONNECTED
    ELSE IF re_search(RE_BOND_DELETION_STATUS_00, line) THEN EVENT_BOND_DELETION
    ELSE IF re_search(RE_BOND_DELETION_STATUS, line) THEN EVENT_BOND_DELETION_FAILED
    ELSE IF re_search(RE_LINK_TERMINATED_01, line) THEN EVENT_NEW_OWNER_DISCONNECTED
    ELSE NoEvent

\* --------------------------------------------------------------- report
\* str(owner_swap_state), as csv.writer writes a non-string field.
StateField(state) == ToString(state)

\* os.path.basename of the i-th discovered file.
FileName(i) == "log" \o ToString(i) \o ".log"

HeaderRow == << "file", "status", "final_state", "result" >>

\* A data row left in the report by an earlier run.
StaleRow == << "old.log", "PASSED", StateField(STATE_OWNER_SWAP_SUCCESS), "OK" >>

C15_MutantRowStatusDiagnosticOnly(state, res) ==
    IF res # "OK" THEN "FAILED" ELSE "PASSED"

C3_MutantRowStatusAnd(state, res) ==
    IF state # STATE_OWNER_SWAP_SUCCESS /\ res # "OK" THEN "FAILED" ELSE "PASSED"

\* The status column chosen by the if/else around the two writerow calls.
RowStatus(state, res) ==
    IF state # STATE_OWNER_SWAP_SUCCESS \/ res # "OK" THEN "FAILED" ELSE "PASSED"

C11_MutantBreakOnNoMatch(match_found, res) ==
    IF match_found
    THEN IF res # "OK" THEN "write" ELSE "scan"
    ELSE "write"

C4_MutantNoBreak(match_found, res) == "scan"

\* Where the loop body goes after a line: "write" is the break, "scan" the
\* next iteration.
AfterLine(match_found, res) ==
    IF match_found
    THEN IF res # "OK" THEN "write" ELSE "scan"
    ELSE "scan"

\* ---------------------------------------------------------------- state
VARIABLES
    pc,                 \* where the run is: main, loop, scan, write, except, done,
                        \* crashed (ended by an uncaught error)
    numFiles,           \* len(log_files)
    fileIdx,            \* i of the for loop of main (0 before the first file)
    reportExists,       \* analysis_report.csv exists
    report,             \* its rows
    owner_swap_state,   \* analyze_log_file's local
    result,             \* analyze_log_file's local
    lineNo,             \* lines of the current file consumed by the for loop
    evs,                \* the events the lines read so far gave, in order
    lastCall,           \* the call of owner_swap_state_machine made for the
                        \* line read last, if that line matched a pattern
    exc,                \* str(e) of the exception caught, NoExc if none
    \* One iteration of the loop body taken on its own (SpecExtract):
    x_pc,               \* "idle" (not in use), "line" (line read), "next" or
                        \* "break" (where the iteration ended)
    x_line,             \* the line the iteration is given
    x_state,            \* owner_swap_state, before and after the iteration
    x_result,           \* result, before and after the iteration
    x_calls,            \* the events passed to the state machine, in order
    \* Calls of analyze_log_file under way side by side (SpecPair):
    inst,               \* instance number |-> that call's file and locals
    \* progress_bar.py and android_bluetooth_controller.py:
    bar,                \* the fields of a ProgressBar and what it has written
    spinner,            \* the fields of a SimpleSpinner and its spinner threads
    thr,                \* thread |-> where it is in the method it called
    ctl                 \* AndroidBluetoothController.run: its locals and commands

\* The variables of the single iteration.
itervars == << x_pc, x_line, x_state, x_result, x_calls >>

\* The variables a whole run of main leaves alone.
xvars == << x_pc, x_line, x_state, x_result, x_calls, inst, bar, spinner, thr, ctl >>

vars ==
    << pc, numFiles, fileIdx, reportExists, report, owner_swap_state, result,
       lineNo, evs, lastCall, exc, x_pc, x_line, x_state, x_result, x_calls,
       inst, bar, spinner, thr, ctl >>

\* The variables of the other modules while the analyzer is modelled.
OthersIdle ==
    /\ bar = << >>
    /\ spinner = << >>
    /\ thr = << >>
    /\ ctl = << >>

\* The single-iteration variables while a whole run is modelled.
XIdle ==
    /\ OthersIdle
    /\ x_pc = "idle"
    /\ x_line = {}
    /\ x_state = STATE_WAITING_FOR_OWNER_PAIRING
    /\ x_result = "OK"
    /\ x_calls = << >>
    /\ inst = << >>

NoExc == "no exception"
NoCall == [called |-> FALSE]

Init ==
    /\ pc = "main"
    /\ numFiles \in 0 .. MaxFiles
    /\ fileIdx = 0
    /\ reportExists \in BOOLEAN
    /\ report = IF reportExists THEN << HeaderRow, StaleRow >> ELSE << >>
    /\ owner_swap_state = STATE_WAITING_FOR_OWNER_PAIRING
    /\ result = "OK"
    /\ lineNo = 0
    /\ evs = << >>
    /\ lastCall = NoCall
    /\ exc = NoExc
    /\ XIdle

\* main() up to its for loop: with no log file it returns at once; otherwise
\* it removes an existing report and writes the header row.
MainStart ==
    /\ UNCHANGED xvars
    /\ pc = "main"
    /\ \/ /\ numFiles = 0
          /\ pc' = "done"
          /\ UNCHANGED << reportExists, report >>
       \/ /\ numFiles > 0
          /\ pc' = "loop"
          /\ reportExists' = TRUE
          /\ report' = << HeaderRow >>
    /\ UNCHANGED << numFiles, fileIdx, owner_swap_state, result, lineNo, evs, lastCall,
                    exc >>

C18_MutantAnalyzeStartNoDefault ==
    /\ UNCHANGED xvars
    /\ pc = "loop"
    /\ fileIdx < numFiles
    /\ fileIdx' = fileIdx + 1
    /\ owner_swap_state' = STATE_WAITING_FOR_OWNER_PAIRING
    /\ result' = ""
    /\ lineNo' = 0
    /\ evs' = << >>
    /\ lastCall' = NoCall
    /\ \/ pc' = "scan" /\ exc' = NoExc
       \/ pc' = "except" /\ exc' = "OSError"
    /\ UNCHANGED << numFiles, reportExists, report >>

C22_MutantAnalyzeStartKeepsState ==
    /\ UNCHANGED xvars
    /\ pc = "loop"
    /\ fileIdx < numFiles
    /\ fileIdx' = fileIdx + 1
    /\ owner_swap_state' = owner_swap_state
    /\ result' = "OK"
    /\ lineNo' = 0
    /\ evs' = << >>
    /\ lastCall' = NoCall
    /\ \/ pc' = "scan" /\ exc' = NoExc
       \/ pc' = "except" /\ exc' = "OSError"
    /\ UNCHANGED << numFiles, reportExists, report >>

\* The next iteration of main's for loop calls analyze_log_file, which sets
\* its locals and opens the file; open may raise.
AnalyzeStart ==
    /\ UNCHANGED xvars
    /\ pc = "loop"
    /\ fileIdx < numFiles
    /\ fileIdx' = fileIdx + 1
    /\ owner_swap_state' = STATE_WAITING_FOR_OWNER_PAIRING
    /\ result' = "OK"
    /\ lineNo' = 0
    /\ evs' = << >>
    /\ lastCall' = NoCall
    /\ \/ pc' = "scan" /\ exc' = NoExc
       \/ pc' = "except" /\ exc' = "OSError"
    /\ UNCHANGED << numFiles, reportExists, report >>

\* One iteration of "for line in file": the pattern chain, the call of the
\* state machine with the unpacking of its result, and the break / continue.
ReadLine ==
    /\ UNCHANGED xvars
    /\ pc = "scan"
    /\ lineNo < MaxLines
    /\ \E line \in Lines :
         LET events == ExtractEvent(line)
             match_found == events # NoEvent
             ret == owner_swap_state_machine(events, owner_swap_state)
         IN  /\ lineNo' = lineNo + 1
             /\ evs' = IF match_found THEN Append(evs, events) ELSE evs
             /\ IF ~match_found
                THEN /\ lastCall' = NoCall
                     /\ pc' = AfterLine(match_found, result)
                     /\ UNCHANGED << owner_swap_state, result, exc >>
                ELSE /\ lastCall' = [called |-> TRUE, events |-> events,
                                     current_state |-> owner_swap_state, ret |-> ret]
                     /\ IF Len(ret) = 2
                        THEN /\ owner_swap_state' = ret[1]
                             /\ result' = ret[2]
                             /\ pc' = AfterLine(match_found, ret[2])
                             /\ exc' = exc
                        ELSE \* unpacking anything but a pair raises
                             /\ pc' = "except"
                             /\ exc' = "TypeError"
                             /\ UNCHANGED << owner_swap_state, result >>
    /\ UNCHANGED << numFiles, fileIdx, reportExists, report >>

\* The for loop finds the end of the file.
ReadEOF ==
    /\ UNCHANGED xvars
    /\ pc = "scan"
    /\ pc' = "write"
    /\ UNCHANGED << numFiles, fileIdx, reportExists, report, owner_swap_state,
                    result, lineNo, evs, lastCall, exc >>

\* Reading the next line raises.
ReadError ==
    /\ UNCHANGED xvars
    /\ pc = "scan"
    /\ pc' = "except"
    /\ exc' = "OSError"
    /\ UNCHANGED << numFiles, fileIdx, reportExists, report, owner_swap_state,
                    result, lineNo, evs, lastCall >>

C23_MutantFailedRowEndsBatch ==
    /\ UNCHANGED xvars
    /\ pc = "write"
    /\ report' = Append(report,
                        << FileName(fileIdx), RowStatus(owner_swap_state, result),
                           StateField(owner_swap_state), result >>)
    /\ pc' = IF RowStatus(owner_swap_state, result) = "FAILED" THEN "done" ELSE "loop"
    /\ UNCHANGED << numFiles, fileIdx, reportExists, owner_swap_state, result,
                    lineNo, evs, lastCall, exc >>

C25_MutantRowDiagnosticOk ==
    /\ UNCHANGED xvars
    /\ pc = "write"
    /\ report' = Append(report,
                        << FileName(fileIdx), RowStatus(owner_swap_state, result),
                           StateField(owner_swap_state), "OK" >>)
    /\ pc' = "loop"
    /\ UNCHANGED << numFiles, fileIdx, reportExists, owner_swap_state, result,
                    lineNo, evs, lastCall, exc >>

\* After the loop: append the file's row to the report.  Under Spec the
\* report is writable: open and writerow of the report do not raise.
WriteRow ==
    /\ UNCHANGED xvars
    /\ pc = "write"
    /\ report' = Append(report,
                        << FileName(fileIdx), RowStatus(owner_swap_state, result),
                           StateField(owner_swap_state), result >>)
    /\ pc' = "loop"
    /\ UNCHANGED << numFiles, fileIdx, reportExists, owner_swap_state, result,
                    lineNo, evs, lastCall, exc >>

C19_MutantExceptionRowKeepsState ==
    /\ UNCHANGED xvars
    /\ pc = "except"
    /\ report' = Append(report, << FileName(fileIdx), "FAILED",
                                   StateField(owner_swap_state), exc >>)
    /\ pc' = "loop"
    /\ UNCHANGED << numFiles, fileIdx, reportExists, owner_swap_state, result,
                    lineNo, evs, lastCall, exc >>

C33_MutantExceptionRetriesFile ==
    /\ UNCHANGED xvars
    /\ pc = "except"
    /\ report' = Append(report, << FileName(fileIdx), "FAILED", "EXCEPTION", exc >>)
    /\ pc' = "loop"
    /\ fileIdx' = fileIdx - 1
    /\ UNCHANGED << numFiles, reportExists, owner_swap_state, result,
                    lineNo, evs, lastCall, exc >>

\* The except clause: append the row of a file whose analysis raised.
WriteException ==
    /\ UNCHANGED xvars
    /\ pc = "except"
    /\ report' = Append(report, << FileName(fileIdx), "FAILED", "EXCEPTION", exc >>)
    /\ pc' = "loop"
    /\ UNCHANGED << numFiles, fileIdx, reportExists, owner_swap_state, result,
                    lineNo, evs, lastCall, exc >>

\* main's for loop is exhausted.
MainEnd ==
    /\ UNCHANGED xvars
    /\ pc = "loop"
    /\ fileIdx = numFiles
    /\ pc' = "done"
    /\ UNCHANGED << numFiles, fileIdx, reportExists, report, owner_swap_state,
                    result, lineNo, evs, lastCall, exc >>

Next ==
    \/ MainStart
    \/ AnalyzeStart
    \/ ReadLine
    \/ ReadEOF
    \/ ReadError
    \/ WriteRow
    \/ WriteException
    \/ MainEnd

Spec == Init /\ [][Next]_vars

\* The run as the interpreter executes it: a step that can be taken is taken.
SpecLive == Init /\ [][Next]_vars /\ WF_vars(Next)

\* ------------------------------------------- the report may not be writable
\* str(e) of the error raised when the report cannot be opened or written.
SinkError == "PermissionError"

\* main() with a file found, when the report cannot be reset: os.remove
\* raises and the old report stays, or the old report is gone and the open
\* for the header raises.  main has no try: the run ends with the error.
MainStartFails ==
    /\ UNCHANGED xvars
    /\ pc = "main"
    /\ numFiles > 0
    /\ pc' = "crashed"
    /\ exc' = SinkError
    /\ \/ UNCHANGED << reportExists, report >>
       \/ reportExists' = FALSE /\ report' = << >>
    /\ UNCHANGED << numFiles, fileIdx, owner_swap_state, result, lineNo, evs, lastCall >>

\* The open of the report for appending, or writerow, raises after the loop:
\* they stand inside the try, so the except clause is entered.
WriteRowFails ==
    /\ UNCHANGED xvars
    /\ pc = "write"
    /\ pc' = "except"
    /\ exc' = SinkError
    /\ UNCHANGED << numFiles, fileIdx, reportExists, report, owner_swap_state,
                    result, lineNo, evs, lastCall >>

\* The write of the except clause raises: nothing catches it, the error
\* leaves analyze_log_file and main, and the run ends.
WriteExceptionFails ==
    /\ UNCHANGED xvars
    /\ pc = "except"
    /\ pc' = "crashed"
    /\ exc' = SinkError
    /\ UNCHANGED << numFiles, fileIdx, reportExists, report, owner_swap_state,
                    result, lineNo, evs, lastCall >>

NextSink ==
    \/ Next
    \/ MainStartFails
    \/ WriteRowFails
    \/ WriteExceptionFails

SpecSink == Init /\ [][NextSink]_vars

\* ------------------------------------- one iteration of the loop, alone
\* The variables of the whole run while a single iteration is modelled.
MainIdle ==
    /\ pc = "main"
    /\ numFiles = 0
    /\ fileIdx = 0
    /\ reportExists = FALSE
    /\ report = << >>
    /\ owner_swap_state = STATE_WAITING_FOR_OWNER_PAIRING
    /\ result = "OK"
    /\ lineNo = 0
    /\ evs = << >>
    /\ lastCall = NoCall
    /\ exc = NoExc

\* The head of the loop body: any line, in any of the nine states; the
\* diagnostic is "OK", or the loop would have been left.
InitExtract ==
    /\ MainIdle
    /\ x_pc = "line"
    /\ x_line \in Lines
    /\ x_state \in States
    /\ x_result = "OK"
    /\ x_calls = << >>
    /\ inst = << >>
    /\ OthersIdle

\* Where AfterLine's answer leaves the iteration.
IterationEnd(after) == IF after = "write" THEN "break" ELSE "next"

\* The body of "for line in file" on x_line: the if/elif chain of re.search
\* calls, the call of the state machine of the branch taken, break / continue.
ExtractStep ==
    /\ x_pc = "line"
    /\ LET events == ExtractEvent(x_line)
           match_found == events # NoEvent
           ret == owner_swap_state_machine(events, x_state)
       IN  \/ /\ ~match_found
              /\ x_calls' = x_calls
              /\ x_pc' = IterationEnd(AfterLine(match_found, x_result))
              /\ UNCHANGED << x_state, x_result >>
           \/ /\ match_found
              /\ x_calls' = Append(x_calls, events)
              /\ IF Len(ret) = 2
                 THEN /\ x_state' = ret[1]
                      /\ x_result' = ret[2]
                      /\ x_pc' = IterationEnd(AfterLine(match_found, ret[2]))
                 ELSE /\ x_pc' = "raise"
                      /\ UNCHANGED << x_state, x_result >>
    /\ UNCHANGED << x_line, pc, numFiles, fileIdx, reportExists, report,
                    owner_swap_state, result, lineNo, evs, lastCall, exc, inst,
                    bar, spinner, thr, ctl >>

NextExtract == ExtractStep

SpecExtract == InitExtract /\ [][NextExtract]_vars

\* ------------------------------ calls of analyze_log_file side by side
\* Several calls of analyze_log_file, one per file, whose steps interleave in
\* any order.  Each call has its own locals; all append to the one report,
\* which main has reset to the header row before the calls.
Instances == 1 .. NumInstances

\* Lines holding one pattern each; a line reporting bond deletion status 00
\* holds the pattern without the status as well.
LineNone == {}
LinePairingStarted == {RE_OWNER_PAIRING_STARTED}
LinePairingComplete == {RE_OWNER_PAIRING_COMPLETE}
LineLink00 == {RE_LINK_TERMINATED_00}
LineBondStatus00 == {RE_BOND_DELETION_STATUS_00, RE_BOND_DELETION_STATUS}
LineBondStatusOther == {RE_BOND_DELETION_STATUS}
LineLink01 == {RE_LINK_TERMINATED_01}

\* The files the calls are given: a full swap, one with the last two events
\* in the other order, one stopped by a failed bond deletion, one without
\* lines.
FileSwap ==
    << LinePairingStarted, LineNone, LinePairingComplete, LinePairingStarted,
       LineLink00, LinePairingComplete, LineBondStatus00, LineLink01 >>
FileSwapOtherOrder ==
    << LinePairingStarted, LinePairingComplete, LinePairingStarted, LineLink00,
       LinePairingComplete, LineLink01, LineLink00, LineBondStatus00 >>
FileDeletionFailed ==
    << LinePairingStarted, LinePairingComplete, LinePairingStarted, LineLink00,
       LinePairingComplete, LineBondStatusOther, LineLink01 >>
FileNoLines == << >>

PairFiles == { FileSwap, FileSwapOtherOrder, FileDeletionFailed, FileNoLines }

\* A call that has not started: its file is chosen, its locals are not yet
\* assigned (the values held here are never read).
NotStarted(f) ==
    [pc |-> "call", file |-> f, lineNo |-> 0,
     owner_swap_state |-> STATE_WAITING_FOR_OWNER_PAIRING, result |-> "OK",
     exc |-> NoExc]

InitPair ==
    /\ pc = "loop"
    /\ numFiles = NumInstances
    /\ fileIdx = 0
    /\ reportExists = TRUE
    /\ report = << HeaderRow >>
    /\ owner_swap_state = STATE_WAITING_FOR_OWNER_PAIRING
    /\ result = "OK"
    /\ lineNo = 0
    /\ evs = << >>
    /\ lastCall = NoCall
    /\ exc = NoExc
    /\ x_pc = "idle"
    /\ x_line = {}
    /\ x_state = STATE_WAITING_FOR_OWNER_PAIRING
    /\ x_result = "OK"
    /\ x_calls = << >>
    /\ inst \in [Instances -> { NotStarted(f) : f \in PairFiles }]
    /\ OthersIdle

\* What a step of a call leaves alone, the report apart.
PairFrame ==
    UNCHANGED << pc, numFiles, fileIdx, reportExists, owner_swap_state, result,
                 lineNo, evs, lastCall, exc, x_pc, x_line, x_state, x_result, x_calls,
                 bar, spinner, thr, ctl >>

C26_MutantStartFromLeftOverState(i) ==
    /\ inst[i].pc = "call"
    /\ \E opened \in BOOLEAN :
         inst' = [inst EXCEPT ![i] =
                    [@ EXCEPT !.owner_swap_state =
                                 IF i > 1 THEN inst[i - 1].owner_swap_state
                                 ELSE STATE_WAITING_FOR_OWNER_PAIRING,
                              !.result = "OK",
                              !.pc = IF opened THEN "scan" ELSE "except",
                              !.exc = IF opened THEN NoExc ELSE "OSError"]]
    /\ UNCHANGED report
    /\ PairFrame

\* Call i assigns its locals and opens its file; open may raise.
P_Start(i) ==
    /\ inst[i].pc = "call"
    /\ \E opened \in BOOLEAN :
         inst' = [inst EXCEPT ![i] =
                    [@ EXCEPT !.owner_swap_state = STATE_WAITING_FOR_OWNER_PAIRING,
                              !.result = "OK",
                              !.pc = IF opened THEN "scan" ELSE "except",
                              !.exc = IF opened THEN NoExc ELSE "OSError"]]
    /\ UNCHANGED report
    /\ PairFrame

C27_MutantSharedLocals(i) ==
    /\ inst[i].pc = "scan"
    /\ inst[i].lineNo < Len(inst[i].file)
    /\ LET line == inst[i].file[inst[i].lineNo + 1]
           events == ExtractEvent(line)
           match_found == events # NoEvent
           ret == owner_swap_state_machine(events, inst[i].owner_swap_state)
       IN  IF ~match_found
           THEN inst' = [inst EXCEPT ![i] =
                           [@ EXCEPT !.lineNo = @ + 1,
                                     !.pc = AfterLine(match_found, inst[i].result)]]
           ELSE IF Len(ret) = 2
           THEN inst' = [j \in Instances |->
                           IF j = i
                           THEN [inst[j] EXCEPT !.lineNo = @ + 1,
                                                !.owner_swap_state = ret[1],
                                                !.result = ret[2],
                                                !.pc = AfterLine(match_found, ret[2])]
                           ELSE [inst[j] EXCEPT !.owner_swap_state = ret[1],
                                                !.result = ret[2]]]
           ELSE inst' = [inst EXCEPT ![i] =
                           [@ EXCEPT !.lineNo = @ + 1, !.pc = "except",
                                     !.exc = "TypeError"]]
    /\ UNCHANGED report
    /\ PairFrame

\* One iteration of call i's "for line in file" on the next line of its file.
P_ReadLine(i) ==
    /\ inst[i].pc = "scan"
    /\ inst[i].lineNo < Len(inst[i].file)
    /\ LET line == inst[i].file[inst[i].lineNo + 1]
           events == ExtractEvent(line)
           match_found == events # NoEvent
           ret == owner_swap_state_machine(events, inst[i].owner_swap_state)
       IN  IF ~match_found
           THEN inst' = [inst EXCEPT ![i] =
                           [@ EXCEPT !.lineNo = @ + 1,
                                     !.pc = AfterLine(match_found, inst[i].result)]]
           ELSE IF Len(ret) = 2
           THEN inst' = [inst EXCEPT ![i] =
                           [@ EXCEPT !.lineNo = @ + 1,
                                     !.owner_swap_state = ret[1],
                                     !.result = ret[2],
                                     !.pc = AfterLine(match_found, ret[2])]]
           ELSE inst' = [inst EXCEPT ![i] =
                           [@ EXCEPT !.lineNo = @ + 1, !.pc = "except",
                                     !.exc = "TypeError"]]
    /\ UNCHANGED report
    /\ PairFrame

\* Call i's for loop finds the end of its file.
P_ReadEOF(i) ==
    /\ inst[i].pc = "scan"
    /\ inst[i].lineNo = Len(inst[i].file)
    /\ inst' = [inst EXCEPT ![i].pc = "write"]
    /\ UNCHANGED report
    /\ PairFrame

\* Reading call i's next line raises.
P_ReadError(i) ==
    /\ inst[i].pc = "scan"
    /\ inst' = [inst EXCEPT ![i].pc = "except", ![i].exc = "OSError"]
    /\ UNCHANGED report
    /\ PairFrame

\* Call i appends its row.  The row is written to a file object of the call's
\* own, opened for appending, and reaches the file in one write when the with
\* block closes it: rows of different calls do not mix.
P_WriteRow(i) ==
    /\ inst[i].pc = "write"
    /\ report' = Append(report,
                        << FileName(i),
                           RowStatus(inst[i].owner_swap_state, inst[i].result),
                           StateField(inst[i].owner_swap_state), inst[i].result >>)
    /\ inst' = [inst EXCEPT ![i].pc = "done"]
    /\ PairFrame

\* Call i's except clause appends its row.
P_WriteException(i) ==
    /\ inst[i].pc = "except"
    /\ report' = Append(report, << FileName(i), "FAILED", "EXCEPTION", inst[i].exc >>)
    /\ inst' = [inst EXCEPT ![i].pc = "done"]
    /\ PairFrame

NextPair ==
    \E i \in Instances :
      \/ P_Start(i)
      \/ P_ReadLine(i)
      \/ P_ReadEOF(i)
      \/ P_ReadError(i)
      \/ P_WriteRow(i)
      \/ P_WriteException(i)

SpecPair == InitPair /\ [][NextPair]_vars

\* ================================================================ claims
\* The call made for the line read last was for state s and event e.
Called(s, e) ==
    /\ lastCall.called
    /\ lastCall.current_state = s
    /\ lastCall.events = e

\* The run has just finished a file whose analysis raised nothing.
RowWritten ==
    /\ pc \in {"loop", "done"}
    /\ fileIdx >= 1
    /\ exc = NoExc

LastRow == report[Len(report)]

\* ret is a pair of one of the nine states and a diagnostic string.
DefinedReturn(ret) ==
    /\ Len(ret) = 2
    /\ ret[1] \in States
    /\ ret[2] \in STRING

\* C1: owner_swap_state_machine is total: for each of the 54 (state, event)
\* pairs, and for every call a scan makes, it returns a pair of one of the
\* nine states and a diagnostic string, never nothing.  The function's table
\* does not depend on the run, so here and below it is evaluated in the
\* initial states (pc = "main"), which every behaviour has.
C1_Totality ==
    /\ pc = "main" => \A s \in States, e \in Events :
         DefinedReturn(owner_swap_state_machine(e, s))
    /\ lastCall.called =>
         /\ lastCall.current_state \in States
         /\ lastCall.events \in Events
         /\ DefinedReturn(lastCall.ret)

\* C1 witness: a scan called the machine with a pair no branch lists and got
\* a defined answer.
C1_Witness ==
    /\ Called(STATE_OLD_OWNER_DISCONNECTED, EVENT_NEW_OWNER_DISCONNECTED)
    /\ DefinedReturn(lastCall.ret)

\* C2: absorption: in OwnerSwapSuccess each of the six events returns
\* (OwnerSwapSuccess, "OK"), and once a scan is in OwnerSwapSuccess its state
\* stays OwnerSwapSuccess and its diagnostic "OK" for the rest of the file.
C2_Absorption ==
    /\ [](/\ pc = "main" => \A e \in Events :
               owner_swap_state_machine(e, STATE_OWNER_SWAP_SUCCESS)
                 = << STATE_OWNER_SWAP_SUCCESS, "OK" >>
          /\ (lastCall.called /\ lastCall.current_state = STATE_OWNER_SWAP_SUCCESS)
               => lastCall.ret = << STATE_OWNER_SWAP_SUCCESS, "OK" >>)
    /\ [][(owner_swap_state = STATE_OWNER_SWAP_SUCCESS /\ fileIdx' = fileIdx)
            => (owner_swap_state' = STATE_OWNER_SWAP_SUCCESS /\ result' = "OK")]_vars

\* C2 witness: an event was processed after OwnerSwapSuccess had been reached.
C2_Witness ==
    /\ Called(STATE_OWNER_SWAP_SUCCESS, EVENT_OWNER_PAIRING_STARTED)
    /\ owner_swap_state = STATE_OWNER_SWAP_SUCCESS
    /\ result = "OK"

\* C3: verdict rule: the row of a file read without error has status PASSED
\* exactly when the scan ended in OwnerSwapSuccess with diagnostic "OK", and
\* FAILED in every other case.
C3_VerdictRule ==
    RowWritten =>
      /\ LastRow[1] = FileName(fileIdx)
      /\ LastRow[2] \in {"PASSED", "FAILED"}
      /\ LastRow[2] = "PASSED"
           <=> (owner_swap_state = STATE_OWNER_SWAP_SUCCESS /\ result = "OK")

\* C3 witness: a PASSED row has been written.
C3_Witness ==
    /\ RowWritten
    /\ LastRow[2] = "PASSED"
    /\ owner_swap_state = STATE_OWNER_SWAP_SUCCESS

\* C4: early stop: once the diagnostic of a scan is not "OK", no further line
\* of that file is read or passed to the state machine, state and diagnostic
\* change no more, and the row reports the state and the diagnostic returned
\* for that last line.
C4_EarlyStop ==
    /\ [][(result # "OK" /\ fileIdx' = fileIdx)
            => /\ lineNo' = lineNo
               /\ lastCall' = lastCall
               /\ owner_swap_state' = owner_swap_state
               /\ result' = result
               /\ pc' \in {"write", "loop", "done"}]_vars
    /\ []((RowWritten /\ result # "OK")
            => /\ lastCall.called
               /\ LastRow[3] = StateField(lastCall.ret[1])
               /\ LastRow[4] = lastCall.ret[2])

\* C4 witness: a row was written for a scan stopped by a rejected event before
\* the longest file's end.
C4_Witness ==
    /\ RowWritten
    /\ result # "OK"
    /\ lineNo >= 2
    /\ lineNo < MaxLines
    /\ LastRow[4] = result

\* The nine advancing transitions (state, event, next state).
AdvancingTransitions ==
    { << STATE_WAITING_FOR_OWNER_PAIRING, EVENT_OWNER_PAIRING_STARTED,
         STATE_OWNER_PAIRING_STARTED >>,
      << STATE_OWNER_PAIRING_STARTED, EVENT_OWNER_PAIRING_COMPLETED,
         STATE_OWNER_PAIRING_COMPLETED >>,
      << STATE_OWNER_PAIRING_COMPLETED, EVENT_OWNER_PAIRING_STARTED,
         STATE_OWNER_SWAP_INITIATED >>,
      << STATE_OWNER_SWAP_INITIATED, EVENT_OLD_OWNER_DISCONNECTED,
         STATE_OLD_OWNER_DISCONNECTED >>,
      << STATE_OLD_OWNER_DISCONNECTED, EVENT_OWNER_PAIRING_COMPLETED,
         STATE_OWNER_SWAP_COMPLETED >>,
      << STATE_OWNER_SWAP_COMPLETED, EVENT_BOND_DELETION,
         STATE_BOND_DELETED_STILL_CONNECTED >>,
      << STATE_OWNER_SWAP_COMPLETED, EVENT_NEW_OWNER_DISCONNECTED,
         STATE_NEW_OWNER_DISCONNECTED_BOND_STILL_EXIST >>,
      << STATE_BOND_DELETED_STILL_CONNECTED, EVENT_NEW_OWNER_DISCONNECTED,
         STATE_OWNER_SWAP_SUCCESS >>,
      << STATE_NEW_OWNER_DISCONNECTED_BOND_STILL_EXIST, EVENT_BOND_DELETION,
         STATE_OWNER_SWAP_SUCCESS >> }

\* ret is what the list of advancing transitions prescribes for (s, e).
AdvancesAsListed(s, e, ret) ==
    IF \E t \in AdvancingTransitions : t[1] = s /\ t[2] = e
    THEN \E t \in AdvancingTransitions :
            t[1] = s /\ t[2] = e /\ t[3] # s /\ ret = << t[3], "OK" >>
    ELSE ret[1] = s

\* C5: the advancing transitions are exactly the nine listed, each with
\* diagnostic "OK"; no other (state, event) pair changes the state.
C5_AdvancingTransitions ==
    /\ pc = "main" => \A s \in States, e \in Events :
         AdvancesAsListed(s, e, owner_swap_state_machine(e, s))
    /\ lastCall.called =>
         AdvancesAsListed(lastCall.current_state, lastCall.events, lastCall.ret)

\* C5 witness: a scan took the last advancing transition of the second branch.
C5_Witness ==
    /\ Called(STATE_NEW_OWNER_DISCONNECTED_BOND_STILL_EXIST, EVENT_BOND_DELETION)
    /\ owner_swap_state = STATE_OWNER_SWAP_SUCCESS

\* C6: a rejected event never changes the state: whenever the machine returns
\* a diagnostic other than "OK", the state it returns is the current state.
C6_RejectedKeepsState ==
    /\ pc = "main" => \A s \in States, e \in Events :
         LET ret == owner_swap_state_machine(e, s)
         IN  ret[2] # "OK" => ret[1] = s
    /\ (lastCall.called /\ lastCall.ret[2] # "OK") =>
         /\ lastCall.ret[1] = lastCall.current_state
         /\ owner_swap_state = lastCall.current_state

\* C6 witness: a scan had an event rejected after it had left the first state.
C6_Witness ==
    /\ Called(STATE_OWNER_SWAP_INITIATED, EVENT_OWNER_PAIRING_COMPLETED)
    /\ lastCall.ret[2] # "OK"
    /\ owner_swap_state = STATE_OWNER_SWAP_INITIATED

\* The five linear states: (state, the one accepted event, the diagnostic of
\* every other event).
LinearRows ==
    { << STATE_WAITING_FOR_OWNER_PAIRING, EVENT_OWNER_PAIRING_STARTED,
         "Owner Pairing was not started" >>,
      << STATE_OWNER_PAIRING_STARTED, EVENT_OWNER_PAIRING_COMPLETED,
         "Owner Pairing was not completed" >>,
      << STATE_OWNER_PAIRING_COMPLETED, EVENT_OWNER_PAIRING_STARTED,
         "Owner Swap was not initiated" >>,
      << STATE_OWNER_SWAP_INITIATED, EVENT_OLD_OWNER_DISCONNECTED,
         "Old Owner did not disconnect" >>,
      << STATE_OLD_OWNER_DISCONNECTED, EVENT_OWNER_PAIRING_COMPLETED,
         "Owner Swap was not completed" >> }

LinearRowHolds(s, e, ret) ==
    \A r \in LinearRows : (r[1] = s /\ r[2] # e) => ret = << s, r[3] >>

\* C7: in each of the five linear states every event other than the accepted
\* one keeps the state and returns that state's diagnostic.
C7_LinearDiagnostics ==
    /\ pc = "main" => \A s \in States, e \in Events :
         LinearRowHolds(s, e, owner_swap_state_machine(e, s))
    /\ lastCall.called =>
         LinearRowHolds(lastCall.current_state, lastCall.events, lastCall.ret)

\* C7 witness: a scan that never started pairing had a bond deletion rejected.
C7_Witness ==
    /\ Called(STATE_WAITING_FOR_OWNER_PAIRING, EVENT_BOND_DELETION)
    /\ result = "Owner Pairing was not started"

\* What the OwnerSwapCompleted row prescribes for event e.
SwapCompletedRowHolds(s, e, ret) ==
    s = STATE_OWNER_SWAP_COMPLETED =>
      /\ e = EVENT_BOND_DELETION_FAILED => ret = << s, "Bond Deletion failed" >>
      /\ e \in { EVENT_OWNER_PAIRING_STARTED, EVENT_OWNER_PAIRING_COMPLETED,
                 EVENT_OLD_OWNER_DISCONNECTED }
           => ret = << s, "Bond Deletion did not occur before disconnecting" >>
      /\ ret[2] = "OK" <=> e \in { EVENT_BOND_DELETION, EVENT_NEW_OWNER_DISCONNECTED }

\* C8: in OwnerSwapCompleted, BondDeletionFailed keeps the state with "Bond
\* Deletion failed"; PairingStarted, PairingCompleted and OldOwnerDisconnected
\* keep it with "Bond Deletion did not occur before disconnecting"; only
\* BondDeletion and NewOwnerDisconnected return "OK".
C8_SwapCompletedRow ==
    /\ pc = "main" => \A s \in States, e \in Events :
         SwapCompletedRowHolds(s, e, owner_swap_state_machine(e, s))
    /\ lastCall.called =>
         SwapCompletedRowHolds(lastCall.current_state, lastCall.events, lastCall.ret)

\* C8 witness: a scan in OwnerSwapCompleted read a failed bond deletion.
C8_Witness ==
    /\ Called(STATE_OWNER_SWAP_COMPLETED, EVENT_BOND_DELETION_FAILED)
    /\ result = "Bond Deletion failed"
    /\ owner_swap_state = STATE_OWNER_SWAP_COMPLETED

\* C9: in NewOwnerDisconnectedBondStillExists, BondDeletion moves to
\* OwnerSwapSuccess with "OK", BondDeletionFailed keeps the state with "Bond
\* Deletion failed", OldOwnerDisconnected keeps it with "OK", and every other
\* event keeps it with "Bond Deletion did not occur after disconnecting".
C9_BondStillExistsRow ==
    (lastCall.called
       /\ lastCall.current_state = STATE_NEW_OWNER_DISCONNECTED_BOND_STILL_EXIST) =>
      lastCall.ret =
        IF lastCall.events = EVENT_BOND_DELETION
        THEN << STATE_OWNER_SWAP_SUCCESS, "OK" >>
        ELSE IF lastCall.events = EVENT_BOND_DELETION_FAILED
        THEN << lastCall.current_state, "Bond Deletion failed" >>
        ELSE IF lastCall.events = EVENT_OLD_OWNER_DISCONNECTED
        THEN << lastCall.current_state, "OK" >>
        ELSE << lastCall.current_state,
                "Bond Deletion did not occur after disconnecting" >>

\* What the BondDeletedStillConnected row prescribes for event e.
BondDeletedRowHolds(s, e, ret) ==
    s = STATE_BOND_DELETED_STILL_CONNECTED =>
      ret = IF e = EVENT_NEW_OWNER_DISCONNECTED
            THEN << STATE_OWNER_SWAP_SUCCESS, "OK" >>
            ELSE IF e = EVENT_OLD_OWNER_DISCONNECTED
            THEN << s, "OK" >>
            ELSE << s, "New Owner did not disconnect" >>

\* C10: in BondDeletedStillConnected, NewOwnerDisconnected moves to
\* OwnerSwapSuccess with "OK"; OldOwnerDisconnected keeps state and "OK" and
\* the scan goes on to the next line; every other event, BondDeletion and
\* BondDeletionFailed included, keeps the state with "New Owner did not
\* disconnect".
C10_BondDeletedRow ==
    /\ [](/\ pc = "main" => \A s \in States, e \in Events :
               BondDeletedRowHolds(s, e, owner_swap_state_machine(e, s))
          /\ lastCall.called =>
               BondDeletedRowHolds(lastCall.current_state, lastCall.events,
                                   lastCall.ret))
    /\ [][(/\ lineNo' = lineNo + 1
           /\ lastCall'.called
           /\ lastCall'.current_state = STATE_BOND_DELETED_STILL_CONNECTED
           /\ lastCall'.events = EVENT_OLD_OWNER_DISCONNECTED)
            => /\ pc' = "scan"
               /\ owner_swap_state' = STATE_BOND_DELETED_STILL_CONNECTED
               /\ result' = "OK"]_vars

\* C10 witness: a scan in BondDeletedStillConnected read an old-owner
\* disconnect and is still scanning.
C10_Witness ==
    /\ Called(STATE_BOND_DELETED_STILL_CONNECTED, EVENT_OLD_OWNER_DISCONNECTED)
    /\ pc = "scan"
    /\ owner_swap_state = STATE_BOND_DELETED_STILL_CONNECTED
    /\ result = "OK"

\* ------------------------------------------------------------ C11 .. C20
\* What a scan that reads the events es in turn holds when it stops: the
\* machine is applied event by event from (state, res) until a diagnostic
\* other than "OK" or the end of es.
RECURSIVE ScanFrom(_, _, _)
ScanFrom(es, state, res) ==
    IF es = << >> \/ res # "OK"
    THEN << state, res >>
    ELSE LET ret == owner_swap_state_machine(Head(es), state)
         IN  ScanFrom(Tail(es), ret[1], ret[2])

\* The (status, final_state, result) columns a file with events es is due.
VerdictOf(es) ==
    LET end == ScanFrom(es, STATE_WAITING_FOR_OWNER_PAIRING, "OK")
    IN  << IF end[1] = STATE_OWNER_SWAP_SUCCESS /\ end[2] = "OK"
           THEN "PASSED" ELSE "FAILED",
           StateField(end[1]), end[2] >>

\* The six patterns in the order of the claim, each with its event.
PatternOrder ==
    << << RE_OWNER_PAIRING_STARTED, EVENT_OWNER_PAIRING_STARTED >>,
       << RE_OWNER_PAIRING_COMPLETE, EVENT_OWNER_PAIRING_COMPLETED >>,
       << RE_LINK_TERMINATED_00, EVENT_OLD_OWNER_DISCONNECTED >>,
       << RE_BOND_DELETION_STATUS_00, EVENT_BOND_DELETION >>,
       << RE_BOND_DELETION_STATUS, EVENT_BOND_DELETION_FAILED >>,
       << RE_LINK_TERMINATED_01, EVENT_NEW_OWNER_DISCONNECTED >> >>

\* The event of the earliest pattern of PatternOrder that occurs in line.
EarliestEvent(line) ==
    LET i == CHOOSE k \in 1 .. Len(PatternOrder) :
                 /\ PatternOrder[k][1] \in line
                 /\ \A j \in 1 .. (k - 1) : PatternOrder[j][1] \notin line
    IN  PatternOrder[i][2]

\* C12: a line yields at most one event, that of the first matching pattern
\* in the order PairingStarted, PairingCompleted, OldOwnerDisconnected,
\* BondDeletion, BondDeletionFailed, NewOwnerDisconnected: a line matching
\* several patterns applies exactly one transition, the earliest pattern's, a
\* line matching none applies none; a success-status bond-deletion line with
\* no earlier pattern yields BondDeletion, never BondDeletionFailed.
C12_FirstPatternWins ==
    /\ [][x_pc = "line" =>
            IF x_line = {}
            THEN /\ x_calls' = << >>
                 /\ x_state' = x_state
                 /\ x_result' = x_result
            ELSE /\ x_calls' = << EarliestEvent(x_line) >>
                 /\ << x_state', x_result' >>
                      = owner_swap_state_machine(EarliestEvent(x_line), x_state)]_vars
    /\ []((/\ x_pc \in {"next", "break"}
           /\ RE_BOND_DELETION_STATUS_00 \in x_line
           /\ x_line \subseteq { RE_BOND_DELETION_STATUS_00, RE_BOND_DELETION_STATUS,
                                 RE_LINK_TERMINATED_01 })
            => /\ x_calls = << EVENT_BOND_DELETION >>
               /\ EVENT_BOND_DELETION_FAILED \notin { x_calls[k] : k \in DOMAIN x_calls })

\* C12 witness: in OwnerSwapCompleted, a line holding the success-status
\* bond deletion (hence the failure pattern too) and the new-owner disconnect
\* applied the BondDeletion transition alone.
C12_Witness ==
    /\ x_pc = "next"
    /\ x_line = { RE_BOND_DELETION_STATUS_00, RE_BOND_DELETION_STATUS,
                  RE_LINK_TERMINATED_01 }
    /\ x_calls = << EVENT_BOND_DELETION >>
    /\ x_state = STATE_BOND_DELETED_STILL_CONNECTED
    /\ x_result = "OK"

\* s is an initial segment of t.
IsPrefix(s, t) == Len(s) <= Len(t) /\ s = SubSeq(t, 1, Len(s))

\* A scan is under way or over, and nothing was raised in it.
ScanUnraised == fileIdx >= 1 /\ exc = NoExc

\* The row due to the current file when its scan ends in (state, res).
RowFor(status, state, res) == << FileName(fileIdx), status, StateField(state), res >>

\* C11: a line that matches no pattern leaves state and diagnostic unchanged
\* and the scan goes on with the next line; state and diagnostic of a scan,
\* and the row of the file, depend on the events of its lines alone, however
\* many non-matching lines stand between them.
C11_NoEventLinesIgnored ==
    /\ [][(lineNo' = lineNo + 1 /\ evs' = evs)
            => /\ owner_swap_state' = owner_swap_state
               /\ result' = result
               /\ ~lastCall'.called
               /\ pc' = "scan"]_vars
    /\ [](ScanUnraised =>
            << owner_swap_state, result >>
              = ScanFrom(evs, STATE_WAITING_FOR_OWNER_PAIRING, "OK"))
    /\ [](RowWritten => << LastRow[2], LastRow[3], LastRow[4] >> = VerdictOf(evs))

\* C11 witness: the row of a file with three non-matching lines among its
\* events has been written.
C11_Witness ==
    /\ RowWritten
    /\ Len(evs) >= 2
    /\ lineNo = Len(evs) + 3
    /\ << LastRow[2], LastRow[3], LastRow[4] >> = VerdictOf(evs)

ScenarioA ==
    << EVENT_OWNER_PAIRING_STARTED, EVENT_OWNER_PAIRING_COMPLETED,
       EVENT_OWNER_PAIRING_STARTED, EVENT_OLD_OWNER_DISCONNECTED,
       EVENT_OWNER_PAIRING_COMPLETED, EVENT_BOND_DELETION,
       EVENT_NEW_OWNER_DISCONNECTED >>

\* The state after each event of Scenario A.
ScenarioAStates ==
    << STATE_OWNER_PAIRING_STARTED, STATE_OWNER_PAIRING_COMPLETED,
       STATE_OWNER_SWAP_INITIATED, STATE_OLD_OWNER_DISCONNECTED,
       STATE_OWNER_SWAP_COMPLETED, STATE_BOND_DELETED_STILL_CONNECTED,
       STATE_OWNER_SWAP_SUCCESS >>

\* C13: Scenario A: each of the seven events is accepted in turn, whatever
\* non-matching lines stand between them, and a file whose events are exactly
\* these ends in OwnerSwapSuccess with "OK" and a PASSED row.
C13_ScenarioA ==
    /\ (ScanUnraised /\ Len(evs) >= 1 /\ IsPrefix(evs, ScenarioA)) =>
         /\ owner_swap_state = ScenarioAStates[Len(evs)]
         /\ result = "OK"
    /\ (RowWritten /\ evs = ScenarioA) =>
         LastRow = RowFor("PASSED", STATE_OWNER_SWAP_SUCCESS, "OK")

\* C13 witness: the row of a Scenario A file with a non-matching line in it.
C13_Witness ==
    /\ RowWritten
    /\ evs = ScenarioA
    /\ lineNo = Len(ScenarioA) + 1
    /\ LastRow[2] = "PASSED"

\* Scenario A with its last two events swapped.
ScenarioASwapped ==
    << EVENT_OWNER_PAIRING_STARTED, EVENT_OWNER_PAIRING_COMPLETED,
       EVENT_OWNER_PAIRING_STARTED, EVENT_OLD_OWNER_DISCONNECTED,
       EVENT_OWNER_PAIRING_COMPLETED, EVENT_NEW_OWNER_DISCONNECTED,
       EVENT_BOND_DELETION >>

ScenarioASwappedStates ==
    << STATE_OWNER_PAIRING_STARTED, STATE_OWNER_PAIRING_COMPLETED,
       STATE_OWNER_SWAP_INITIATED, STATE_OLD_OWNER_DISCONNECTED,
       STATE_OWNER_SWAP_COMPLETED, STATE_NEW_OWNER_DISCONNECTED_BOND_STILL_EXIST,
       STATE_OWNER_SWAP_SUCCESS >>

\* C14: from OwnerSwapCompleted, BondDeletion then NewOwnerDisconnected and
\* NewOwnerDisconnected then BondDeletion both reach OwnerSwapSuccess with "OK"
\* at each step; a file with Scenario A's events, the last two swapped, is
\* PASSED.
C14_BothOrdersConverge ==
    /\ ScanFrom(<< EVENT_BOND_DELETION >>, STATE_OWNER_SWAP_COMPLETED, "OK")[2] = "OK"
    /\ ScanFrom(<< EVENT_NEW_OWNER_DISCONNECTED >>, STATE_OWNER_SWAP_COMPLETED, "OK")[2] = "OK"
    /\ ScanFrom(<< EVENT_BOND_DELETION, EVENT_NEW_OWNER_DISCONNECTED >>,
                STATE_OWNER_SWAP_COMPLETED, "OK") = << STATE_OWNER_SWAP_SUCCESS, "OK" >>
    /\ ScanFrom(<< EVENT_NEW_OWNER_DISCONNECTED, EVENT_BOND_DELETION >>,
                STATE_OWNER_SWAP_COMPLETED, "OK") = << STATE_OWNER_SWAP_SUCCESS, "OK" >>
    /\ (ScanUnraised /\ Len(evs) >= 1 /\ IsPrefix(evs, ScenarioASwapped)) =>
         /\ owner_swap_state = ScenarioASwappedStates[Len(evs)]
         /\ result = "OK"
    /\ (RowWritten /\ evs = ScenarioASwapped) =>
         LastRow = RowFor("PASSED", STATE_OWNER_SWAP_SUCCESS, "OK")

\* C14 witness: the PASSED row of a file with the swapped order.
C14_Witness ==
    /\ RowWritten
    /\ evs = ScenarioASwapped
    /\ LastRow[2] = "PASSED"
    /\ owner_swap_state = STATE_OWNER_SWAP_SUCCESS

\* C15: a file whose events were all accepted but which did not reach
\* OwnerSwapSuccess gets a FAILED row with the state reached and "OK"; a file
\* with the single event PairingStarted gets (FAILED, OwnerPairingStarted, "OK").
C15_StalledSequence ==
    /\ (RowWritten /\ result = "OK" /\ owner_swap_state # STATE_OWNER_SWAP_SUCCESS) =>
         /\ owner_swap_state \in States
         /\ LastRow = RowFor("FAILED", owner_swap_state, "OK")
    /\ (RowWritten /\ evs = << EVENT_OWNER_PAIRING_STARTED >>) =>
         LastRow = RowFor("FAILED", STATE_OWNER_PAIRING_STARTED, "OK")

\* C15 witness: the row of a file whose only event is PairingStarted.
C15_Witness ==
    /\ RowWritten
    /\ evs = << EVENT_OWNER_PAIRING_STARTED >>
    /\ LastRow[2] = "FAILED"
    /\ LastRow[4] = "OK"

\* C16: if the first event of a file is not PairingStarted, the scan stops at
\* that line in WaitingForOwnerPairing with "Owner Pairing was not started",
\* and the row is FAILED.
C16_OutOfOrderStart ==
    (fileIdx >= 1 /\ Len(evs) >= 1 /\ evs[1] # EVENT_OWNER_PAIRING_STARTED) =>
      /\ Len(evs) = 1
      /\ lastCall.called
      /\ owner_swap_state = STATE_WAITING_FOR_OWNER_PAIRING
      /\ result = "Owner Pairing was not started"
      /\ exc = NoExc
      /\ pc \in {"write", "loop", "done"}
      /\ pc # "write" =>
           LastRow = RowFor("FAILED", STATE_WAITING_FOR_OWNER_PAIRING,
                            "Owner Pairing was not started")

\* C16 witness: the row of a file whose first event, after two non-matching
\* lines, is PairingCompleted.
C16_Witness ==
    /\ RowWritten
    /\ evs = << EVENT_OWNER_PAIRING_COMPLETED >>
    /\ lineNo = 3
    /\ LastRow[2] = "FAILED"

\* C17: a BondDeletionFailed event in OwnerSwapCompleted keeps the state,
\* sets the diagnostic to "Bond Deletion failed" and stops the scan; the row
\* is FAILED.
C17_BondDeletionFailure ==
    Called(STATE_OWNER_SWAP_COMPLETED, EVENT_BOND_DELETION_FAILED) =>
      /\ owner_swap_state = STATE_OWNER_SWAP_COMPLETED
      /\ result = "Bond Deletion failed"
      /\ evs[Len(evs)] = EVENT_BOND_DELETION_FAILED
      /\ exc = NoExc
      /\ pc \in {"write", "loop", "done"}
      /\ pc # "write" =>
           LastRow = RowFor("FAILED", STATE_OWNER_SWAP_COMPLETED, "Bond Deletion failed")

\* C17 witness: the row of a file whose bond deletion failed after the swap
\* was completed.
C17_Witness ==
    /\ RowWritten
    /\ Called(STATE_OWNER_SWAP_COMPLETED, EVENT_BOND_DELETION_FAILED)
    /\ LastRow[2] = "FAILED"
    /\ LastRow[4] = "Bond Deletion failed"

\* C18: a file with no line, or none that matches a pattern, stays in
\* WaitingForOwnerPairing with "OK" and gets a FAILED row.
C18_EventFreeFile ==
    /\ (ScanUnraised /\ evs = << >>) =>
         /\ owner_swap_state = STATE_WAITING_FOR_OWNER_PAIRING
         /\ result = "OK"
    /\ (RowWritten /\ evs = << >>) =>
         LastRow = RowFor("FAILED", STATE_WAITING_FOR_OWNER_PAIRING, "OK")

\* C18 witness: the row of a file with no line at all.
C18_Witness ==
    /\ RowWritten
    /\ lineNo = 0
    /\ evs = << >>
    /\ LastRow[2] = "FAILED"

\* C19: when opening or reading a file raises, exactly one row is written for
\* the file, (FAILED, "EXCEPTION", error text), and the run returns to main's
\* loop, where the next file, if any, can be analyzed.
C19_ReadFailure ==
    /\ [](pc = "except" => (exc # NoExc /\ Len(report) = fileIdx))
    /\ []((pc \in {"loop", "done"} /\ fileIdx >= 1 /\ exc # NoExc) =>
            /\ Len(report) = fileIdx + 1
            /\ LastRow = << FileName(fileIdx), "FAILED", "EXCEPTION", exc >>)
    /\ []((pc = "loop" /\ fileIdx < numFiles) => ENABLED AnalyzeStart)
    /\ [][pc = "except" => (pc' = "loop" /\ fileIdx' = fileIdx)]_vars

\* C19 witness: the second file is being scanned after reading the first
\* raised.
C19_Witness ==
    /\ pc = "scan"
    /\ fileIdx = 2
    /\ Len(report) = 2
    /\ report[2] = << FileName(1), "FAILED", "EXCEPTION", "OSError" >>

\* C20: after a run over N discovered files the report is the header row
\* followed by exactly N data rows, the i-th that of the i-th file.
C20_ReportShape ==
    pc = "done" =>
      /\ reportExists
      /\ Len(report) = numFiles + 1
      /\ report[1] = HeaderRow
      /\ \A i \in 1 .. numFiles :
           /\ report[i + 1][1] = FileName(i)
           /\ report[i + 1][2] \in {"PASSED", "FAILED"}

\* ------------------------------------------------------- claims C21..C30
\* No row of an earlier run is in the report.
NoStaleRow == \A i \in DOMAIN report : report[i] # StaleRow

\* C21: a report that exists before a run is deleted before the run produces
\* its results, in every run of main, also one that finds no .log file: once
\* main is past its start the report holds no row of an earlier run.
C21_StaleReportDeleted == pc # "main" => NoStaleRow

\* The (status, final_state, result) columns of a row.
Triple(row) == << row[2], row[3], row[4] >>

\* C22: no state survives across files: each call of analyze_log_file starts
\* in WaitingForOwnerPairing with "OK", the first event of every file is
\* judged in WaitingForOwnerPairing, and the row of a file analyzed after
\* others is what its own events give, whatever the earlier files' outcomes.
C22_NoStateAcrossFiles ==
    /\ [][fileIdx' # fileIdx
            => /\ fileIdx' = fileIdx + 1
               /\ owner_swap_state' = STATE_WAITING_FOR_OWNER_PAIRING
               /\ result' = "OK"
               /\ lastCall' = NoCall]_vars
    /\ [][(pc = "scan" /\ evs = << >> /\ lastCall'.called)
            => lastCall'.current_state = STATE_WAITING_FOR_OWNER_PAIRING]_vars
    /\ []((RowWritten /\ fileIdx >= 2) => Triple(LastRow) = VerdictOf(evs))

\* C22 witness: the first file was PASSED, ending in OwnerSwapSuccess; the
\* second, whose only event is PairingStarted, got its own row.
C22_Witness ==
    /\ RowWritten
    /\ fileIdx = 2
    /\ report[2][2] = "PASSED"
    /\ evs = << EVENT_OWNER_PAIRING_STARTED >>
    /\ LastRow = RowFor("FAILED", STATE_OWNER_PAIRING_STARTED, "OK")

\* C23: isolation: the end of a file's analysis, by a protocol violation, a
\* read failure or the end of the file, appends that file's row, leaves the
\* earlier rows as they were and returns to main's loop; when the batch is
\* over every file has its own row, and the row of a file that follows a
\* failed one is what its own events give.
C23_Isolation ==
    /\ [][(pc = "write" \/ pc = "except")
            => /\ pc' = "loop"
               /\ fileIdx' = fileIdx
               /\ Len(report') = Len(report) + 1
               /\ SubSeq(report', 1, Len(report)) = report
               /\ report'[Len(report')][1] = FileName(fileIdx)]_vars
    /\ []((pc = "done" /\ numFiles > 0)
            => /\ Len(report) = numFiles + 1
               /\ \A i \in 1 .. numFiles : report[i + 1][1] = FileName(i))
    /\ []((RowWritten /\ fileIdx >= 2 /\ report[fileIdx][2] = "FAILED")
            => Triple(LastRow) = VerdictOf(evs))

\* C23 witness: a batch of two is over; the first file was stopped by a
\* rejected event, the second is PASSED.
C23_Witness ==
    /\ pc = "done"
    /\ numFiles = 2
    /\ report[2][2] = "FAILED"
    /\ report[2][4] \notin {"OK", "OSError"}
    /\ report[3] = << FileName(2), "PASSED", StateField(STATE_OWNER_SWAP_SUCCESS), "OK" >>

\* A row with final state "EXCEPTION" that records a report write failure.
SinkExceptionRow(row) == row[3] = "EXCEPTION" /\ row[4] = SinkError

\* C24: a failure to write a file's row is fatal and not retried: the run
\* ends at the failed write, no further write of a row for that file is
\* attempted, the report never gets an "EXCEPTION" row for a file whose lines
\* were read without error, and no later file is analyzed.
C24_SinkFailureFatal ==
    /\ [][(pc = "write" /\ pc' # "loop") => pc' = "crashed"]_vars
    /\ [](\A i \in DOMAIN report : ~SinkExceptionRow(report[i]))
    /\ [][(exc = SinkError /\ pc # "crashed") => fileIdx' = fileIdx]_vars

\* C25: the row of a file read without error carries in final_state and
\* result exactly the state and the diagnostic the scan held when it ended,
\* at the end of the file or at the early stop, in PASSED and FAILED rows
\* alike; writing the row changes neither.
C25_RowCarriesFinalState ==
    /\ [][(pc = "write" /\ pc' = "loop")
            => /\ report'[Len(report')][3] = StateField(owner_swap_state)
               /\ report'[Len(report')][4] = result
               /\ owner_swap_state' = owner_swap_state
               /\ result' = result]_vars
    /\ [](RowWritten
            => /\ LastRow[2] \in {"PASSED", "FAILED"}
               /\ LastRow[3] = StateField(owner_swap_state)
               /\ LastRow[4] = result
               /\ \A s \in States : LastRow[3] = StateField(s) => s = owner_swap_state)

\* C25 witness: the first file's row is PASSED; the second file's row is
\* FAILED with the diagnostic of the event that stopped its scan.
C25_Witness ==
    /\ RowWritten
    /\ fileIdx = 2
    /\ Triple(report[2]) = << "PASSED", StateField(STATE_OWNER_SWAP_SUCCESS), "OK" >>
    /\ LastRow[2] = "FAILED"
    /\ result = "Old Owner did not disconnect"
    /\ LastRow[3] = StateField(STATE_OWNER_SWAP_INITIATED)
    /\ LastRow[4] = result

\* The five events every PASSED file starts with.
PassHead ==
    << EVENT_OWNER_PAIRING_STARTED, EVENT_OWNER_PAIRING_COMPLETED,
       EVENT_OWNER_PAIRING_STARTED, EVENT_OLD_OWNER_DISCONNECTED,
       EVENT_OWNER_PAIRING_COMPLETED >>

\* es has a prefix PassHead, first, zero or more OldOwnerDisconnected, last,
\* the prefix ending at es[k].
PassTail(es, first, last, k) ==
    /\ k >= Len(PassHead) + 2
    /\ k <= Len(es)
    /\ SubSeq(es, 1, Len(PassHead)) = PassHead
    /\ es[Len(PassHead) + 1] = first
    /\ \A j \in (Len(PassHead) + 2) .. (k - 1) : es[j] = EVENT_OLD_OWNER_DISCONNECTED
    /\ es[k] = last

\* es has a prefix of the form PairingStarted, PairingCompleted,
\* PairingStarted, OldOwnerDisconnected, PairingCompleted, then BondDeletion
\* and NewOwnerDisconnected in either order with zero or more
\* OldOwnerDisconnected between the two.
HasPassPrefix(es) ==
    \E k \in 1 .. Len(es) :
      \/ PassTail(es, EVENT_BOND_DELETION, EVENT_NEW_OWNER_DISCONNECTED, k)
      \/ PassTail(es, EVENT_NEW_OWNER_DISCONNECTED, EVENT_BOND_DELETION, k)

\* es can be continued to a sequence with a prefix of the pass form: it is
\* an initial segment of PassHead, or PassHead, then BondDeletion or
\* NewOwnerDisconnected, then OldOwnerDisconnected only.
PassFormOpen(es) ==
    \/ IsPrefix(es, PassHead)
    \/ /\ Len(es) > Len(PassHead)
       /\ SubSeq(es, 1, Len(PassHead)) = PassHead
       /\ es[Len(PassHead) + 1] \in {EVENT_BOND_DELETION, EVENT_NEW_OWNER_DISCONNECTED}
       /\ \A j \in (Len(PassHead) + 2) .. Len(es) : es[j] = EVENT_OLD_OWNER_DISCONNECTED

\* C28: the row of a file read without error is PASSED if and only if the
\* sequence of its events has a prefix of the pass form, whatever events
\* follow that prefix; with any other sequence of events the row is FAILED.
\* evs holds the events up to the line the scan ended at: a scan that ends
\* at the end of the file has seen all events, and a scan is stopped early
\* only by an event after which no continuation has a pass prefix.
C28_PassedIffPassPrefix ==
    /\ (fileIdx >= 1 /\ exc = NoExc /\ result # "OK") =>
         /\ ~HasPassPrefix(evs)
         /\ ~PassFormOpen(evs)
    /\ RowWritten =>
         /\ LastRow[2] = "PASSED" <=> HasPassPrefix(evs)
         /\ LastRow[2] = "FAILED" <=> ~HasPassPrefix(evs)

\* C28 witness: a PASSED row of a file with an OldOwnerDisconnected between
\* NewOwnerDisconnected and BondDeletion.
C28_Witness ==
    /\ RowWritten
    /\ evs = PassHead \o << EVENT_NEW_OWNER_DISCONNECTED, EVENT_OLD_OWNER_DISCONNECTED,
                            EVENT_BOND_DELETION >>
    /\ LastRow[2] = "PASSED"

\* C28 second case, kept with the witness: a PASSED row of a file with an
\* event after the pass prefix.
C28_WitnessTrailing ==
    /\ RowWritten
    /\ evs = ScenarioA \o << EVENT_BOND_DELETION_FAILED >>
    /\ LastRow[2] = "PASSED"

\* The immediate successors of a state along the protocol.
Successors(s) ==
    IF s = STATE_WAITING_FOR_OWNER_PAIRING THEN {STATE_OWNER_PAIRING_STARTED}
    ELSE IF s = STATE_OWNER_PAIRING_STARTED THEN {STATE_OWNER_PAIRING_COMPLETED}
    ELSE IF s = STATE_OWNER_PAIRING_COMPLETED THEN {STATE_OWNER_SWAP_INITIATED}
    ELSE IF s = STATE_OWNER_SWAP_INITIATED THEN {STATE_OLD_OWNER_DISCONNECTED}
    ELSE IF s = STATE_OLD_OWNER_DISCONNECTED THEN {STATE_OWNER_SWAP_COMPLETED}
    ELSE IF s = STATE_OWNER_SWAP_COMPLETED
    THEN {STATE_BOND_DELETED_STILL_CONNECTED, STATE_NEW_OWNER_DISCONNECTED_BOND_STILL_EXIST}
    ELSE IF s \in {STATE_BOND_DELETED_STILL_CONNECTED,
                   STATE_NEW_OWNER_DISCONNECTED_BOND_STILL_EXIST}
    THEN {STATE_OWNER_SWAP_SUCCESS}
    ELSE {}

\* The state of the scan after each event read so far (index 0: before the
\* first event).
StatePath ==
    [k \in 0 .. Len(evs) |->
       ScanFrom(SubSeq(evs, 1, k), STATE_WAITING_FOR_OWNER_PAIRING, "OK")[1]]

\* C29: during a scan the state only moves forward along the protocol: each
\* event keeps the state or moves it to an immediate successor, so no phase
\* is skipped; no state is entered again after it was left; no scan visits
\* both BondDeletedStillConnected and NewOwnerDisconnectedBondStillExists.
\* The states a scan went through are looked at when the scan is over: a
\* state is entered where it differs from the one before, and then it is
\* none of the earlier ones.
C29_ForwardOnly ==
    /\ []((pc = "main") => \A s \in States, e \in Events :
            LET ret == owner_swap_state_machine(e, s)
            IN  ret[1] = s \/ ret[1] \in Successors(s))
    /\ [][fileIdx' = fileIdx
            => \/ owner_swap_state' = owner_swap_state
               \/ owner_swap_state' \in Successors(owner_swap_state)]_vars
    /\ []((pc = "write" \/ pc = "except") =>
            LET path == StatePath
                visited == { path[k] : k \in DOMAIN path }
            IN  /\ exc = NoExc => path[Len(evs)] = owner_swap_state
                /\ \A j \in 1 .. Len(evs) :
                     path[j] # path[j - 1]
                       => \A i \in 0 .. (j - 1) : path[i] # path[j]
                /\ ~(/\ STATE_BOND_DELETED_STILL_CONNECTED \in visited
                     /\ STATE_NEW_OWNER_DISCONNECTED_BOND_STILL_EXIST \in visited))

\* C29 witness: a scan is over that went through every phase, by way of
\* BondDeletedStillConnected, where one event kept the state.
C29_Witness ==
    /\ pc = "write"
    /\ evs = PassHead \o << EVENT_BOND_DELETION, EVENT_OLD_OWNER_DISCONNECTED,
                            EVENT_NEW_OWNER_DISCONNECTED >>
    /\ StatePath[6] = STATE_BOND_DELETED_STILL_CONNECTED
    /\ StatePath[7] = STATE_BOND_DELETED_STILL_CONNECTED
    /\ owner_swap_state = STATE_OWNER_SWAP_SUCCESS

\* The scan was in OwnerSwapSuccess with "OK" after one of the events read.
ReachedSuccess ==
    \E k \in 1 .. Len(evs) :
      ScanFrom(SubSeq(evs, 1, k), STATE_WAITING_FOR_OWNER_PAIRING, "OK")
        = << STATE_OWNER_SWAP_SUCCESS, "OK" >>

\* C30: once a scan has reached OwnerSwapSuccess, each further line is read
\* without ending the loop and leaves OwnerSwapSuccess and "OK" in place,
\* whatever its event; the row written for such a file is PASSED.
C30_SuccessIsFinal ==
    /\ [][(pc = "scan" /\ owner_swap_state = STATE_OWNER_SWAP_SUCCESS
                       /\ lineNo' = lineNo + 1)
            => /\ pc' = "scan"
               /\ owner_swap_state' = STATE_OWNER_SWAP_SUCCESS
               /\ result' = "OK"]_vars
    /\ [][(pc = "write" /\ pc' = "loop" /\ owner_swap_state = STATE_OWNER_SWAP_SUCCESS)
            => report'[Len(report')] = RowFor("PASSED", STATE_OWNER_SWAP_SUCCESS, "OK")]_vars
    /\ []((RowWritten /\ ReachedSuccess)
            => LastRow = RowFor("PASSED", STATE_OWNER_SWAP_SUCCESS, "OK"))

\* C30 witness: the PASSED row of a file whose last line, read in
\* OwnerSwapSuccess, reported a failed bond deletion.
C30_Witness ==
    /\ RowWritten
    /\ Called(STATE_OWNER_SWAP_SUCCESS, EVENT_BOND_DELETION_FAILED)
    /\ ReachedSuccess
    /\ LastRow[2] = "PASSED"

\* The events the lines of a file give, in order.
RECURSIVE EventsOf(_)
EventsOf(lines) ==
    IF lines = << >> THEN << >>
    ELSE IF Head(lines) = {} THEN EventsOf(Tail(lines))
    ELSE << EarliestEvent(Head(lines)) >> \o EventsOf(Tail(lines))

\* The places of the report that hold a row of call i's file.
RowsOf(i) == { k \in 2 .. Len(report) : report[k][1] = FileName(i) }

RowOf(i) == report[CHOOSE k \in RowsOf(i) : TRUE]

\* Call i is over and nothing was raised in it.
DoneUnraised(i) == inst[i].pc = "done" /\ inst[i].exc = NoExc

C31_DeletionFailedRejected ==
    /\ [](pc = "main" => \A s \in States \ {STATE_OWNER_SWAP_SUCCESS} :
            LET ret == owner_swap_state_machine(EVENT_BOND_DELETION_FAILED, s)
            IN  ret[1] = s /\ ret[2] # "OK")
    /\ []((/\ lastCall.called
           /\ lastCall.events = EVENT_BOND_DELETION_FAILED
           /\ lastCall.current_state # STATE_OWNER_SWAP_SUCCESS)
            => /\ result # "OK"
               /\ owner_swap_state = lastCall.current_state
               /\ exc = NoExc
               /\ pc \in {"write", "loop", "done"}
               /\ pc # "write" => (LastRow[2] = "FAILED" /\ LastRow[4] = result))
    /\ [][(lastCall.called /\ lastCall.events = EVENT_BOND_DELETION_FAILED
                           /\ lastCall.current_state # STATE_OWNER_SWAP_SUCCESS)
            => lineNo' = lineNo \/ fileIdx' # fileIdx]_vars

\* C31 witness: the FAILED row of a file whose bond deletion failed after
\* the bond had already been deleted once.
C31_Witness ==
    /\ RowWritten
    /\ Called(STATE_BOND_DELETED_STILL_CONNECTED, EVENT_BOND_DELETION_FAILED)
    /\ LastRow = RowFor("FAILED", STATE_BOND_DELETED_STILL_CONNECTED,
                        "New Owner did not disconnect")

\* The diagnostics of the nine branches of the state machine.
BranchDiagnostics ==
    { "OK", "Owner Pairing was not started", "Owner Pairing was not completed",
      "Owner Swap was not initiated", "Old Owner did not disconnect",
      "Owner Swap was not completed", "Bond Deletion failed",
      "Bond Deletion did not occur before disconnecting",
      "New Owner did not disconnect",
      "Bond Deletion did no occur after disconnecting" }

\* C32: at every point of a scan the state is one of the nine defined ones,
\* every call of the machine is made with such a state, so the fallback
\* branch is not taken: the diagnostic of a scan is one of the nine branches'
\* and no row of the report carries an "Unknown state: ..." diagnostic.
C32_NoUnknownState ==
    /\ [](owner_swap_state \in States /\ result \in BranchDiagnostics)
    /\ [](lastCall.called =>
            /\ lastCall.current_state \in States
            /\ lastCall.ret[1] \in States
            /\ lastCall.ret[2] \in BranchDiagnostics)
    /\ [](\A i \in 2 .. Len(report) :
            /\ report[i] # StaleRow /\ report[i][3] # "EXCEPTION"
                 => report[i][4] \in BranchDiagnostics
            /\ \A n \in 0 .. (STATE_OWNER_SWAP_SUCCESS + 2) :
                 report[i][4] # "Unknown state: " \o ToString(n))

\* C32 witness: a row was written for a scan stopped in the last state but
\* one, NewOwnerDisconnectedBondStillExists.
C32_Witness ==
    /\ RowWritten
    /\ lastCall.called
    /\ owner_swap_state = STATE_NEW_OWNER_DISCONNECTED_BOND_STILL_EXIST
    /\ result = "Bond Deletion failed"
    /\ LastRow[4] = result

\* C33: every scan ends and its row is written: a line is consumed once
\* (the count of lines read only grows, by one per line, within a file), the
\* loop is left at the end of the file or at the first rejected event, back
\* in main's loop each file analyzed so far has its row, and the run reaches
\* its end, which it does only after the last file.
C33_Termination ==
    /\ [][fileIdx' = fileIdx
            => /\ lineNo' \in {lineNo, lineNo + 1}
               /\ (pc = "scan" /\ pc' = "write" /\ lineNo' = lineNo + 1)
                    => result' # "OK"]_vars
    /\ [][fileIdx' \in {fileIdx, fileIdx + 1}]_vars
    /\ [](pc = "loop" => Len(report) = fileIdx + 1)
    /\ [](pc = "done" => fileIdx = numFiles)
    /\ <>(pc = "done")

\* C33 witness: the run is over after two files, the first read to its end
\* at the longest length, the second stopped by a rejected event.
C33_Witness ==
    /\ pc = "done"
    /\ numFiles = 2
    /\ fileIdx = 2
    /\ Len(report) = 3
    /\ report[2][4] = "OK"
    /\ report[3][4] = "Owner Pairing was not started"

\* =====================================================================
\* progress_bar.py: one ProgressBar used by several threads
\* =====================================================================

\* The threads that call the bar, the calls they make in all, the largest
\* step of an update and the largest total.
NumThreads == 2
MaxCalls == 3
MaxStep == 2
MaxTotal == 2

Threads == 1 .. NumThreads
Min(a, b) == IF a <= b THEN a ELSE b
Max(a, b) == IF a >= b THEN a ELSE b

\* The variables of the analyzer while another module is modelled.
AnalyzerIdle ==
    /\ MainIdle
    /\ x_pc = "idle"
    /\ x_line = {}
    /\ x_state = STATE_WAITING_FOR_OWNER_PAIRING
    /\ x_result = "OK"
    /\ x_calls = << >>
    /\ inst = << >>

avars ==
    << pc, numFiles, fileIdx, reportExists, report, owner_swap_state, result,
       lineNo, evs, lastCall, exc, x_pc, x_line, x_state, x_result, x_calls,
       inst >>

\* A thread outside every method of the bar; op and n are its last call.
ThreadIdle == [pc |-> "idle", op |-> "none", n |-> 0, tmp |-> 0]

\* ProgressBar.__init__: current 0, a free lock, not closed, nothing written.
\* lock is the set of threads inside "with self.lock"; out counts the
\* display strings written to the file and newlines the "\n" written;
\* calls, sum and others are history: the calls made, the sum of the n of
\* the update calls, and whether set_progress or close was ever called.
InitBar ==
    /\ AnalyzerIdle
    /\ bar \in [total : (-1) .. MaxTotal, current : {0}, closed : {FALSE},
                lock : {{}}, out : {0}, newlines : {0},
                calls : {0}, sum : {0}, others : {FALSE}]
    /\ thr = [t \in Threads |-> ThreadIdle]
    /\ spinner = << >>
    /\ ctl = << >>

BarFrame == UNCHANGED << avars, spinner, ctl >>

\* _display: nothing once closed, else one display string is written.
Display(b) == IF b.closed THEN b ELSE [b EXCEPT !.out = @ + 1]

\* Leaving "with self.lock".
Release(b, t) == [b EXCEPT !.lock = @ \ {t}]

\* A thread calls update(n), set_progress(value) or close().
BarCall(t) ==
    /\ thr[t].pc = "idle"
    /\ bar.calls < MaxCalls
    /\ \/ \E n \in 0 .. MaxStep :
            /\ thr' = [thr EXCEPT ![t] = [pc |-> "lock", op |-> "update",
                                          n |-> n, tmp |-> 0]]
            /\ bar' = [bar EXCEPT !.calls = @ + 1, !.sum = @ + n]
       \/ \E value \in (-1) .. (MaxTotal + 1) :
            /\ thr' = [thr EXCEPT ![t] = [pc |-> "lock", op |-> "set_progress",
                                          n |-> value, tmp |-> 0]]
            /\ bar' = [bar EXCEPT !.calls = @ + 1, !.others = TRUE]
       \/ /\ thr' = [thr EXCEPT ![t] = [pc |-> "lock", op |-> "close",
                                        n |-> 0, tmp |-> 0]]
          /\ bar' = [bar EXCEPT !.calls = @ + 1, !.others = TRUE]
    /\ BarFrame

\* The same without the lock: the body is entered at once.
C34_MutantAcquireWithoutLock(t) ==
    /\ thr[t].pc = "lock"
    /\ bar' = [bar EXCEPT !.lock = @ \cup {t}]
    /\ thr' = [thr EXCEPT ![t].pc = thr[t].op]
    /\ BarFrame

\* "with self.lock": the thread waits until the lock is free and takes it.
Acquire(t) ==
    /\ thr[t].pc = "lock"
    /\ bar.lock = {}
    /\ bar' = [bar EXCEPT !.lock = @ \cup {t}]
    /\ thr' = [thr EXCEPT ![t].pc = thr[t].op]
    /\ BarFrame

\* update: return if closed, else read self.current + n.
UpdateRead(t) ==
    /\ thr[t].pc = "update"
    /\ IF bar.closed
         THEN /\ bar' = Release(bar, t)
              /\ thr' = [thr EXCEPT ![t].pc = "idle"]
         ELSE /\ bar' = bar
              /\ thr' = [thr EXCEPT ![t].pc = "store",
                                    ![t].tmp = bar.current + thr[t].n]
    /\ BarFrame

\* update: self.current = min(..., self.total); the display is written if a
\* tenth of a second has passed since the last one or the total is reached.
UpdateStore(t) ==
    /\ thr[t].pc = "store"
    /\ \E elapsed \in BOOLEAN :
         LET stored == [bar EXCEPT !.current = Min(thr[t].tmp, bar.total)]
         IN  bar' = Release(IF elapsed \/ stored.current >= stored.total
                              THEN Display(stored) ELSE stored, t)
    /\ thr' = [thr EXCEPT ![t].pc = "idle"]
    /\ BarFrame

\* The same with the value stored as it is given when it is below 0.
C35_MutantSetProgressNoFloor(t) ==
    /\ thr[t].pc = "set_progress"
    /\ bar' = Release(IF bar.closed THEN bar
                      ELSE Display([bar EXCEPT
                               !.current = Min(thr[t].n, bar.total)]), t)
    /\ thr' = [thr EXCEPT ![t].pc = "idle"]
    /\ BarFrame

\* set_progress: return if closed, else clamp the value into 0..total,
\* store it and write the display.
SetProgress(t) ==
    /\ thr[t].pc = "set_progress"
    /\ bar' = Release(IF bar.closed THEN bar
                      ELSE Display([bar EXCEPT
                               !.current = Min(Max(thr[t].n, 0), bar.total)]), t)
    /\ thr' = [thr EXCEPT ![t].pc = "idle"]
    /\ BarFrame

\* The same without the test of _closed.
C36_MutantCloseWithoutCheck(t) ==
    /\ thr[t].pc = "close"
    /\ bar' = bar
    /\ thr' = [thr EXCEPT ![t].pc = "closing"]
    /\ BarFrame

\* close: "if not self._closed".
CloseCheck(t) ==
    /\ thr[t].pc = "close"
    /\ IF bar.closed
         THEN /\ bar' = Release(bar, t)
              /\ thr' = [thr EXCEPT ![t].pc = "idle"]
         ELSE /\ bar' = bar
              /\ thr' = [thr EXCEPT ![t].pc = "closing"]
    /\ BarFrame

\* close: the last display, the newline, then _closed = True.
CloseWrite(t) ==
    /\ thr[t].pc = "closing"
    /\ bar' = Release([Display(bar) EXCEPT !.newlines = @ + 1,
                                           !.closed = TRUE], t)
    /\ thr' = [thr EXCEPT ![t].pc = "idle"]
    /\ BarFrame

NextBar ==
    \E t \in Threads :
        \/ BarCall(t)
        \/ Acquire(t)
        \/ UpdateRead(t)
        \/ UpdateStore(t)
        \/ SetProgress(t)
        \/ CloseCheck(t)
        \/ CloseWrite(t)

SpecBar == InitBar /\ [][NextBar]_vars

\* The n of the update calls that have not stored yet.
RECURSIVE PendingSum(_)
PendingSum(ts) ==
    IF ts = {} THEN 0
    ELSE LET t == CHOOSE u \in ts : TRUE
         IN  (IF thr[t].op = "update" /\ thr[t].pc # "idle" THEN thr[t].n ELSE 0)
             + PendingSum(ts \ {t})

\* C34: no increment of concurrent update calls is lost. While only update
\* has been called on a bar with total >= 0, current is min(total, sum of
\* the n of the calls that have stored); once every call has returned (and
\* one was made), current = min(total, sum of all n), whatever the total.
C34_NoLostIncrement ==
    ~bar.others =>
        /\ bar.total >= 0
             => bar.current = Min(bar.total, bar.sum - PendingSum(Threads))
        /\ (bar.calls > 0 /\ \A t \in Threads : thr[t].pc = "idle")
             => bar.current = Min(bar.total, bar.sum)

\* C34 witness: two update calls with n > 0 are under way at once, one
\* between its read and its store, the other waiting for the lock, on a bar
\* that an earlier update has advanced.
C34_Witness ==
    /\ ~bar.others
    /\ bar.current > 0
    /\ \E t, u \in Threads :
         /\ thr[t].pc = "store" /\ thr[t].n > 0
         /\ thr[u].pc = "lock" /\ thr[u].op = "update" /\ thr[u].n > 0

\* C35: on a bar with total >= 0, 0 <= current <= total at every moment.
C35_CurrentInRange ==
    bar.total >= 0 => (0 <= bar.current /\ bar.current <= bar.total)

\* C35 witness: after updates, set_progress(-1) has returned on an open bar
\* with total > 0 and left current at 0; and set_progress(total + 1) has
\* returned and left current at total.
C35_Witness ==
    /\ bar.total > 0
    /\ ~bar.closed
    /\ bar.sum > 0
    /\ \E t \in Threads :
         /\ thr[t].pc = "idle" /\ thr[t].op = "set_progress"
         /\ thr[t].n = -1
         /\ bar.current = 0

C35_WitnessAbove ==
    /\ bar.total > 0
    /\ ~bar.closed
    /\ \E t \in Threads :
         /\ thr[t].pc = "idle" /\ thr[t].op = "set_progress"
         /\ thr[t].n = bar.total + 1
         /\ bar.current = bar.total

\* C36: once the bar is closed no step changes current or writes anything
\* (a display string or a newline), and the newline is written exactly once:
\* never twice, and once when the bar is closed.
C36_ClosedIsFinal ==
    /\ [][bar.closed => /\ bar'.closed
                        /\ bar'.current = bar.current
                        /\ bar'.out = bar.out
                        /\ bar'.newlines = bar.newlines]_vars
    /\ [](bar.newlines = IF bar.closed THEN 1 ELSE 0)

\* C36 witness: on a closed bar one thread is inside update(n) with n > 0
\* and holds the lock, while another has called close() again.
C36_Witness ==
    /\ bar.closed
    /\ \E t, u \in Threads :
         /\ thr[t].pc = "update" /\ thr[t].n > 0 /\ t \in bar.lock
         /\ thr[u].pc = "lock" /\ thr[u].op = "close"

\* C36 witness: a second close() and a set_progress have returned on the
\* closed bar.
C36_WitnessReturned ==
    /\ bar.closed
    /\ bar.calls >= 3
    /\ \E t, u \in Threads :
         /\ t # u
         /\ thr[t].pc = "idle" /\ thr[t].op = "close"
         /\ thr[u].pc = "idle" /\ thr[u].op = "set_progress"

\* =====================================================================
\* progress_bar.py: one SimpleSpinner used by several threads
\* =====================================================================

\* SimpleSpinner.__init__: not running, no thread, a free lock. spin is the
\* sequence of the spinner threads created so far, each at "test" (the while
\* condition), "write" (the loop body) or "ended"; thread is the index of
\* the one self.thread refers to, 0 for None; last is what was written to
\* the file last: nothing yet, a frame of the animation or the clear line.
InitSpinner ==
    /\ AnalyzerIdle
    /\ spinner = [running |-> FALSE, thread |-> 0, lock |-> {},
                  spin |-> << >>, last |-> "none", calls |-> 0]
    /\ thr = [t \in Threads |-> ThreadIdle]
    /\ bar = << >>
    /\ ctl = << >>

SpinnerFrame == UNCHANGED << avars, bar, ctl >>

\* The spinner threads that have not ended.
Alive == { k \in 1 .. Len(spinner.spin) : spinner.spin[k] # "ended" }

\* A thread calls start() or stop().
SpinnerCall(t) ==
    /\ thr[t].pc = "idle"
    /\ spinner.calls < MaxCalls
    /\ \E op \in {"start", "stop"} :
         thr' = [thr EXCEPT ![t] = [pc |-> "lock", op |-> op, n |-> 0, tmp |-> 0]]
    /\ spinner' = [spinner EXCEPT !.calls = @ + 1]
    /\ SpinnerFrame

\* "with self.lock" of start and stop.
SpinnerAcquire(t) ==
    /\ thr[t].pc = "lock"
    /\ spinner.lock = {}
    /\ spinner' = [spinner EXCEPT !.lock = @ \cup {t}]
    /\ thr' = [thr EXCEPT ![t].pc = thr[t].op]
    /\ SpinnerFrame

\* start: if not running, running = True and a new thread runs _spin.
Start(t) ==
    /\ thr[t].pc = "start"
    /\ spinner' =
         IF spinner.running
           THEN [spinner EXCEPT !.lock = @ \ {t}]
           ELSE [spinner EXCEPT !.running = TRUE,
                                !.spin = Append(@, "test"),
                                !.thread = Len(spinner.spin) + 1,
                                !.lock = @ \ {t}]
    /\ thr' = [thr EXCEPT ![t].pc = "idle"]
    /\ SpinnerFrame

\* stop: if running, running = False, and the thread is to be joined.
StopCheck(t) ==
    /\ thr[t].pc = "stop"
    /\ IF spinner.running
         THEN /\ spinner' = [spinner EXCEPT !.running = FALSE]
              /\ thr' = [thr EXCEPT ![t].pc = "join", ![t].tmp = spinner.thread]
         ELSE /\ spinner' = [spinner EXCEPT !.lock = @ \ {t}]
              /\ thr' = [thr EXCEPT ![t].pc = "idle"]
    /\ SpinnerFrame

\* The same without waiting for the thread.
C37_MutantStopWithoutJoin(t) ==
    /\ thr[t].pc = "join"
    /\ spinner' = [spinner EXCEPT !.last = "clear", !.lock = @ \ {t}]
    /\ thr' = [thr EXCEPT ![t].pc = "idle"]
    /\ SpinnerFrame

\* stop: thread.join() returns once the thread has ended (at once when there
\* is none); then the clear line is written and the lock released.
StopJoin(t) ==
    /\ thr[t].pc = "join"
    /\ thr[t].tmp # 0 => spinner.spin[thr[t].tmp] = "ended"
    /\ spinner' = [spinner EXCEPT !.last = "clear", !.lock = @ \ {t}]
    /\ thr' = [thr EXCEPT ![t].pc = "idle"]
    /\ SpinnerFrame

\* _spin: "while self.running", read without the lock.
SpinTest(k) ==
    /\ k \in 1 .. Len(spinner.spin)
    /\ spinner.spin[k] = "test"
    /\ spinner' = [spinner EXCEPT
                     !.spin[k] = IF spinner.running THEN "write" ELSE "ended"]
    /\ UNCHANGED thr
    /\ SpinnerFrame

\* _spin: the loop body writes a frame and sleeps.
SpinWrite(k) ==
    /\ k \in 1 .. Len(spinner.spin)
    /\ spinner.spin[k] = "write"
    /\ spinner' = [spinner EXCEPT !.spin[k] = "test", !.last = "frame"]
    /\ UNCHANGED thr
    /\ SpinnerFrame

\* The steps of a calling thread once it is inside start or stop.
InCall(t) ==
    \/ SpinnerAcquire(t)
    \/ Start(t)
    \/ StopCheck(t)
    \/ StopJoin(t)

\* The steps of a spinner thread.
SpinStep(k) ==
    \/ SpinTest(k)
    \/ SpinWrite(k)

NextSpinner ==
    \/ \E t \in Threads : SpinnerCall(t) \/ InCall(t)
    \/ \E k \in 1 .. MaxCalls : SpinStep(k)

\* Every thread that can take a step is scheduled in the end: the calling
\* threads inside a call, and the spinner threads.
SpecSpinner ==
    /\ InitSpinner
    /\ [][NextSpinner]_vars
    /\ \A t \in Threads : WF_vars(InCall(t))
    /\ \A k \in 1 .. MaxCalls : WF_vars(SpinStep(k))

\* C37: at most one spinner thread is alive; a stop() that found the
\* spinner running has returned only with the thread it joined ended; while
\* the spinner is stopped and no call is inside the lock, no spinner thread
\* is alive and, once a stop() has written, the clear line is the last
\* thing written; and every call of start() or stop() returns.
C37_SpinnerStops ==
    /\ [](Cardinality(Alive) <= 1)
    /\ [](\A t \in Threads :
            (thr[t].pc = "idle" /\ thr[t].op = "stop" /\ thr[t].tmp # 0)
                => spinner.spin[thr[t].tmp] = "ended")
    /\ []((~spinner.running /\ spinner.lock = {})
            => /\ Alive = {}
               /\ spinner.last \in {"none", "clear"})
    /\ \A t \in Threads : (thr[t].pc # "idle") ~> (thr[t].pc = "idle")

\* C37 witness: stop() has returned after joining a spinner thread that had
\* written frames, while another thread has called start() and waits for the
\* lock; and a second spinner thread has been started after the first ended.
C37_Witness ==
    /\ \E t, u \in Threads :
         /\ thr[t].pc = "idle" /\ thr[t].op = "stop" /\ thr[t].tmp # 0
         /\ thr[u].pc = "lock" /\ thr[u].op = "start"
    /\ spinner.last = "clear"
    /\ Len(spinner.spin) >= 1

C37_WitnessRestart ==
    /\ Len(spinner.spin) = 2
    /\ spinner.spin[1] = "ended"
    /\ spinner.spin[2] = "write"
    /\ spinner.last = "frame"

\* =====================================================================
\* android_bluetooth_controller.py: AndroidBluetoothController.run
\* =====================================================================

\* The cycles a run may start.
MaxCycles == 2

\* time.time() - bt_on_time as the polling loop can tell it apart: the
\* largest of the marks 0, 60, 300, 600 seconds that has been reached.
ElapsedMarks == {0, 60, 300, 600}

\* run has been called and has done nothing yet. before is the last
\* Bluetooth command issued before the latest step of run and issued the
\* commands of that step, in order.
InitController ==
    /\ AnalyzerIdle
    /\ ctl = [pc |-> "start",
              total_cycles |-> 0,
              complete_cycles |-> 0,
              timeout_keyword2_cycles |-> 0,
              timeout_2min_keyword1_cycles |-> 0,
              cycle_in_progress |-> FALSE,
              waiting_for_keyword2 |-> FALSE,
              timeout_1min_logged |-> FALSE,
              timeout_2min_reached |-> FALSE,
              elapsed |-> 0,
              before |-> "none",
              issued |-> << >>]
    /\ bar = << >>
    /\ spinner = << >>
    /\ thr = << >>

ControllerFrame == UNCHANGED << avars, bar, spinner, thr >>

\* The last Bluetooth command issued so far.
LastCommand(c) ==
    IF c.issued = << >> THEN c.before ELSE c.issued[Len(c.issued)]

\* run up to the monitoring loop: return if no device is connected, else
\* Bluetooth OFF, and ON then OFF again when the monitored file is empty.
Setup ==
    /\ ctl.pc = "start"
    /\ \E connected, empty \in BOOLEAN :
         ctl' = IF ~connected
                  THEN [ctl EXCEPT !.pc = "returned"]
                  ELSE [ctl EXCEPT !.pc = "loop",
                                   !.issued = IF empty THEN << "OFF", "ON", "OFF" >>
                                              ELSE << "OFF" >>]
    /\ ControllerFrame

\* The if / elif chain on the last lines read: a new cycle, keyword 1 again
\* during the wait, or keyword 2 during the wait.
Phase(c, last_lines, keyword_found, keyword2_found) ==
    IF last_lines /\ keyword_found /\ ~c.cycle_in_progress /\ ~c.waiting_for_keyword2
      THEN [c EXCEPT !.total_cycles = @ + 1,
                     !.cycle_in_progress = TRUE,
                     !.timeout_1min_logged = FALSE,
                     !.timeout_2min_reached = FALSE,
                     !.issued = Append(@, "ON"),
                     !.waiting_for_keyword2 = TRUE,
                     !.elapsed = 0]
    ELSE IF last_lines /\ keyword_found /\ c.waiting_for_keyword2
      THEN [c EXCEPT !.issued = @ \o << "OFF", "ON" >>,
                     !.elapsed = 0]
    ELSE IF last_lines /\ keyword2_found /\ c.waiting_for_keyword2
      THEN [c EXCEPT !.issued = Append(@, "OFF"),
                     !.complete_cycles = @ + 1,
                     !.cycle_in_progress = FALSE,
                     !.waiting_for_keyword2 = FALSE]
    ELSE c

\* The same checked whether or not keyword 2 is waited for.
C38_MutantTimeoutWithoutWaiting(c) ==
    IF c.elapsed >= 600 /\ ~c.timeout_2min_reached
      THEN [c EXCEPT !.timeout_2min_reached = TRUE,
                     !.issued = Append(@, "OFF"),
                     !.timeout_2min_keyword1_cycles = @ + 1,
                     !.cycle_in_progress = FALSE,
                     !.waiting_for_keyword2 = FALSE]
    ELSE IF c.elapsed >= 300 /\ ~c.timeout_1min_logged /\ ~c.timeout_2min_reached
      THEN [c EXCEPT !.timeout_1min_logged = TRUE]
    ELSE IF c.elapsed >= 60 /\ ~c.timeout_1min_logged
      THEN [c EXCEPT !.timeout_1min_logged = TRUE,
                     !.issued = Append(@, "OFF"),
                     !.timeout_keyword2_cycles = @ + 1,
                     !.cycle_in_progress = FALSE,
                     !.waiting_for_keyword2 = FALSE]
    ELSE c

\* The timeouts, checked while keyword 2 is waited for (bt_on_time is then a
\* time.time() value, never None or 0).
TimeoutCheck(c) ==
    IF ~c.waiting_for_keyword2 THEN c
    ELSE IF c.elapsed >= 600 /\ ~c.timeout_2min_reached
      THEN [c EXCEPT !.timeout_2min_reached = TRUE,
                     !.issued = Append(@, "OFF"),
                     !.timeout_2min_keyword1_cycles = @ + 1,
                     !.cycle_in_progress = FALSE,
                     !.waiting_for_keyword2 = FALSE]
    ELSE IF c.elapsed >= 300 /\ ~c.timeout_1min_logged /\ ~c.timeout_2min_reached
      THEN [c EXCEPT !.timeout_1min_logged = TRUE]
    ELSE IF c.elapsed >= 60 /\ ~c.timeout_1min_logged
      THEN [c EXCEPT !.timeout_1min_logged = TRUE,
                     !.issued = Append(@, "OFF"),
                     !.timeout_keyword2_cycles = @ + 1,
                     !.cycle_in_progress = FALSE,
                     !.waiting_for_keyword2 = FALSE]
    ELSE c

\* One iteration of "while True": the last lines are read (none, or lines
\* with or without each keyword), then the chain, then the timeouts. A run
\* starts at most MaxCycles cycles.
Iterate ==
    /\ ctl.pc = "loop"
    /\ \E last_lines, keyword_found, keyword2_found \in BOOLEAN :
         /\ (last_lines /\ keyword_found /\ ~ctl.cycle_in_progress
                 /\ ~ctl.waiting_for_keyword2)
              => ctl.total_cycles < MaxCycles
         /\ ctl' = TimeoutCheck(
                     Phase([ctl EXCEPT !.before = LastCommand(ctl),
                                       !.issued = << >>],
                           last_lines, keyword_found, keyword2_found))
    /\ ControllerFrame

\* Time passes during time.sleep(poll_interval): while keyword 2 is waited
\* for, the time since bt_on_time reaches a later mark.
Tick ==
    /\ ctl.pc = "loop"
    /\ ctl.waiting_for_keyword2
    /\ \E m \in ElapsedMarks :
         /\ m > ctl.elapsed
         /\ ctl' = [ctl EXCEPT !.elapsed = m]
    /\ ControllerFrame

NextController ==
    \/ Setup
    \/ Iterate
    \/ Tick

\* The loop goes on polling and time goes on passing; the run is followed
\* for as long as it is not interrupted from the keyboard.
SpecController ==
    /\ InitController
    /\ [][NextController]_vars
    /\ WF_vars(Iterate)
    /\ WF_vars(Tick)

\* ON and OFF in turn, from a last command on.
RECURSIVE Alternates(_, _)
Alternates(last, cmds) ==
    IF cmds = << >> THEN TRUE
    ELSE /\ Head(cmds) # last
         /\ Alternates(Head(cmds), Tail(cmds))

\* C38: the first command of run is OFF and from then on ON and OFF take
\* turns; at the end of every iteration of the loop cycle_in_progress equals
\* waiting_for_keyword2 and the last command is ON exactly when
\* waiting_for_keyword2 holds; total_cycles grows by one at a time and only
\* in an iteration entered with no cycle in progress.
C38_CommandsAlternate ==
    /\ [](/\ ctl.before = "none" => (ctl.issued = << >> \/ Head(ctl.issued) = "OFF")
          /\ Alternates(ctl.before, ctl.issued))
    /\ [](ctl.pc = "loop"
            => /\ ctl.cycle_in_progress = ctl.waiting_for_keyword2
               /\ (LastCommand(ctl) = "ON") = ctl.waiting_for_keyword2)
    /\ [][ctl'.total_cycles # ctl.total_cycles
            => /\ ctl'.total_cycles = ctl.total_cycles + 1
               /\ ~ctl.cycle_in_progress
               /\ ~ctl.waiting_for_keyword2]_vars

\* C38 witness: in a second cycle keyword 1 has been seen again during the
\* wait, so that the latest iteration issued OFF then ON, after a first
\* cycle that the keyword-2 timeout ended.
C38_Witness ==
    /\ ctl.pc = "loop"
    /\ ctl.total_cycles = 2
    /\ ctl.timeout_keyword2_cycles = 1
    /\ ctl.waiting_for_keyword2
    /\ ctl.before = "ON"
    /\ ctl.issued = << "OFF", "ON" >>

\* C39: every started cycle ends with Bluetooth turned OFF, whatever the
\* last lines of the file contain.
C39_CycleEnds ==
    (ctl.pc = "loop" /\ ctl.cycle_in_progress)
        ~> (~ctl.cycle_in_progress /\ LastCommand(ctl) = "OFF")

\* What the loop does guarantee: a wait for keyword 2 ends, or keyword 1 is
\* seen again during it (and the time since bt_on_time starts again at 0).
CycleEndsUnlessKeyword1Again ==
    (ctl.pc = "loop" /\ ctl.waiting_for_keyword2)
        ~> (~ctl.waiting_for_keyword2 \/ ctl.issued = << "OFF", "ON" >>)

====
